---- MODULE Spec2Model ----
(***************************************************************************)
(* Incremental synchronisation and deduplication engine of the INAPROC     *)
(* dashboard: the POST /api/sync handler (two copies exist in the          *)
(* repository: the batched one that commits once per invocation and the    *)
(* per-page one that commits after every page), the Excel service          *)
(* (appendToExcel, loadExistingRecords, getFileInfo), the sync-state       *)
(* document (getSyncState, updateSyncState) and the remote paginated API.  *)
(*                                                                         *)
(* Modelling conventions                                                   *)
(*  - a field value is a natural number; 0 stands for every value that     *)
(*    `record[field] || ''` turns into the empty string (absent, null,     *)
(*    '', 0);                                                              *)
(*  - a key is the sequence of its components: the '|' join of atoms;      *)
(*  - the fallback key `__row_${JSON.stringify(record)}` is the sequence   *)
(*    of the record's values behind a leading -1;                          *)
(*  - a cursor is the offset of the next record in the remote dataset,     *)
(*    0 is the null cursor (JavaScript tests cursors for truthiness);      *)
(*  - the xlsx workbook is the sequence of its data rows plus the          *)
(*    keyFields cell of the _metadata sheet;                               *)
(*  - every `await` of the handlers that touches the file system, the      *)
(*    sync-state document or the network is one step.                      *)
(***************************************************************************)
EXTENDS Integers, Sequences, FiniteSets, TLC

\* ------------------------------------------------------------------ bounds
MaxKey == 2            \* key values 1..MaxKey (0 is the empty key value)
MaxContent == 2        \* values of the non-key field
MaxData == 3           \* records in the remote dataset
MaxBatchSize == 2      \* batchSize arguments 1..MaxBatchSize
MaxPagesArg == 2       \* maxPages arguments 1..MaxPagesArg
MaxInvocations == 2    \* POST invocations per behaviour
MaxConcData == 1       \* records in the remote dataset when invocations overlap
MaxHours == 200        \* the clock runs from hour 1 to hour MaxHours
MaxStored == 2         \* records a finished sync left in a file before a status query
MaxRaceData == 2       \* records of the remote collection two invocations race on
MaxBase == 2           \* records of a remote collection before it grows
MaxAdded == 1          \* records a remote collection gains
MaxResyncInvocations == 3  \* invocations of a sync and the re-sync after it
MaxBatch == 2          \* records in a batch handed to appendToExcel directly
MaxStateHours == 3     \* the clock during calls of updateSyncState and resetSyncState
MaxStateCalls == 2     \* calls of updateSyncState and resetSyncState per behaviour
MaxGateRequests == 2   \* requests that reach the validation of POST /api/sync
MaxRounds == 1         \* answers without isComplete a component gets for one endpoint

\* --------------------------------------------------------- program constants
maxRetries == 3        \* RETRY_CONFIG.maxRetries
initialDelay == 1000   \* RETRY_CONFIG.initialDelay
maxDelay == 10000      \* RETRY_CONFIG.maxDelay

\* ------------------------------------------------------------------- helpers
Min(a, b) == IF a < b THEN a ELSE b

Range(s) == {s[i] : i \in 1..Len(s)}

RECURSIVE Pow2(_)
Pow2(n) == IF n = 0 THEN 1 ELSE 2 * Pow2(n - 1)

\* All sequences over S of length 0..n.
RECURSIVE SeqsUpTo(_, _)
SeqsUpTo(S, n) ==
    IF n = 0 THEN {<<>>}
    ELSE LET shorter == SeqsUpTo(S, n - 1)
         IN  shorter \cup {Append(s, x) : s \in {t \in shorter : Len(t) = n - 1}, x \in S}

\* ------------------------------------------------------------------- records
\* A record of the remote API: an open mapping from field names to values.
Records == [kd_paket : 0..MaxKey, nama : 1..MaxContent]

\* record[field] || '' : a field the record does not have reads as empty.
FieldValue(record, field) ==
    IF field \in DOMAIN record THEN record[field] ELSE 0

\* -------------------------------------------------------------- drive-config
\* Endpoints are kept as their path segments: /<gen>/<cat>/<name>.
Endpoints ==
    { [gen |-> "v1", cat |-> "ekatalog-archive", name |-> "paket-e-purchasing"] }

Years == {"2024", "2025"}

Units == [endpoint : Endpoints, year : Years]

\* DRIVE_CONFIG.folderMapping; every other prefix goes to 'other'.
getFolderPath(endpoint) ==
    IF endpoint.gen \in {"v1", "legacy"}
       /\ endpoint.cat \in {"ekatalog-archive", "ekatalog", "rup", "tender"}
    THEN <<endpoint.gen, endpoint.cat>>
    ELSE <<"other">>

\* `${endpointName}_${year}.xlsx`, endpointName the last path segment.
getFileName(endpoint, year) == <<endpoint.name, year>>

getFilePath(endpoint, year) == <<getFolderPath(endpoint), getFileName(endpoint, year)>>

\* keyMappings[endpointName] || ['kode_rup'].  An entry such as
\* 'kode_rup||kd_rup' is one string of the list.
getUniqueKeyFields(endpoint) ==
    IF endpoint.name = "paket-e-purchasing" THEN <<"kd_paket", "kode_rup||kd_rup">>
    ELSE IF endpoint.name = "paket-anggaran-penyedia" THEN <<"kode_rup||kd_rup">>
    ELSE <<"kode_rup">>

\* ------------------------------------------------------------- excel-service
\* keyFields.map(field => String(record[field] || '')).join('|')
generateRecordKey(record, keyFields) ==
    [i \in 1..Len(keyFields) |-> FieldValue(record, keyFields[i])]

\* !key || key === '' || key.split('|').every(k => k === '')
IsEmptyKey(key) == \A i \in 1..Len(key) : key[i] = 0

\* JSON.stringify(record): the values of the record in field order.
FieldOrder == <<"kd_paket", "kode_rup", "kd_rup", "nama">>

RowJson(record) == [i \in 1..Len(FieldOrder) |-> FieldValue(record, FieldOrder[i])]

\* Faulty variant of IncomingKey: no fallback for a key whose fields are all
\* empty (the excel-service before the fallback was added).
IncomingKeyNoFallback(record, keyFields) == generateRecordKey(record, keyFields)

\* The key appendToExcel gives an incoming record: the joined key fields, or
\* `__row_${JSON.stringify(record)}` when they are all empty.  The prefix is
\* the leading -1, which no joined key starts with.
IncomingKey(record, keyFields) ==
    LET key == generateRecordKey(record, keyFields)
    IN  IF IsEmptyKey(key) THEN <<-1>> \o RowJson(record) ELSE key

NoFile == [exists |-> FALSE, records |-> <<>>, keyFields |-> <<>>]

\* loadExistingRecords: the rows of the workbook, the keys of the rows under
\* the key fields of the _metadata sheet, and those key fields.
loadExistingRecords(file) ==
    IF ~file.exists
    THEN [records |-> <<>>, keys |-> {}, keyFields |-> <<>>]
    ELSE [records |-> file.records,
          keys |-> {generateRecordKey(file.records[i], file.keyFields) :
                        i \in 1..Len(file.records)},
          keyFields |-> file.keyFields]

\* The dedup loop of appendToExcel over newData[from..], first seen wins.
RECURSIVE DedupLoop(_, _, _, _, _, _)
DedupLoop(newData, i, keyFields, existingKeys, uniqueNewRecords, duplicatesSkipped) ==
    IF i > Len(newData)
    THEN [uniqueNewRecords |-> uniqueNewRecords, duplicatesSkipped |-> duplicatesSkipped]
    ELSE LET key == IncomingKey(newData[i], keyFields)
         IN  IF key \notin existingKeys
             THEN DedupLoop(newData, i + 1, keyFields, existingKeys \cup {key},
                            Append(uniqueNewRecords, newData[i]), duplicatesSkipped)
             ELSE DedupLoop(newData, i + 1, keyFields, existingKeys,
                            uniqueNewRecords, duplicatesSkipped + 1)

\* Faulty variant of MergeResult: the workbook is rebuilt from the new records alone.
MergeResultNewOnly(endpoint, year, loaded, newData) ==
    LET keyFields == getUniqueKeyFields(endpoint)
        d == DedupLoop(newData, 1, keyFields, loaded.keys, <<>>, 0)
        allRecords == d.uniqueNewRecords
    IN  [success |-> TRUE,
         newRecords |-> Len(d.uniqueNewRecords),
         duplicatesSkipped |-> d.duplicatesSkipped,
         totalRecords |-> Len(allRecords),
         filePath |-> getFilePath(endpoint, year),
         allRecords |-> allRecords,
         keyFields |-> keyFields]

\* Faulty variant of MergeResult: every record of newData is counted as new.
MergeResultCountsAll(endpoint, year, loaded, newData) ==
    LET keyFields == getUniqueKeyFields(endpoint)
        d == DedupLoop(newData, 1, keyFields, loaded.keys, <<>>, 0)
        allRecords == loaded.records \o d.uniqueNewRecords
    IN  [success |-> TRUE,
         newRecords |-> Len(newData),
         duplicatesSkipped |-> d.duplicatesSkipped,
         totalRecords |-> Len(allRecords),
         filePath |-> getFilePath(endpoint, year),
         allRecords |-> allRecords,
         keyFields |-> keyFields]

\* What a successful appendToExcel computes from the loaded file and newData.
MergeResult(endpoint, year, loaded, newData) ==
    LET keyFields == getUniqueKeyFields(endpoint)
        d == DedupLoop(newData, 1, keyFields, loaded.keys, <<>>, 0)
        allRecords == loaded.records \o d.uniqueNewRecords
    IN  [success |-> TRUE,
         newRecords |-> Len(d.uniqueNewRecords),
         duplicatesSkipped |-> d.duplicatesSkipped,
         totalRecords |-> Len(allRecords),
         filePath |-> getFilePath(endpoint, year),
         allRecords |-> allRecords,
         keyFields |-> keyFields]

\* The catch branch of appendToExcel.
FailedResult(endpoint, year) ==
    [success |-> FALSE, newRecords |-> 0, duplicatesSkipped |-> 0, totalRecords |-> 0,
     filePath |-> getFilePath(endpoint, year), allRecords |-> <<>>, keyFields |-> <<>>]

\* Faulty variant of getFileInfo: the records are counted by their keys.
getFileInfoCountsKeys(file) ==
    IF ~file.exists THEN [exists |-> FALSE, recordCount |-> 0]
    ELSE [exists |-> TRUE, recordCount |-> Cardinality(loadExistingRecords(file).keys)]

getFileInfo(file) ==
    IF ~file.exists THEN [exists |-> FALSE, recordCount |-> 0]
    ELSE [exists |-> TRUE, recordCount |-> Len(loadExistingRecords(file).records)]

\* ------------------------------------------------------------------ remote
\* The remote collection of one endpoint and year: its records in cursor
\* order, and the way its last page announces the end:
\*   "nocursor"     the last page carries no cursor,
\*   "hasmorefalse" the last page carries a cursor and has_more = false,
\*   "emptypage"    the last page carries a cursor and has_more = true, and
\*                  the page behind that cursor is empty,
\*   "array"        the answer is no envelope but a bare array of all records,
\*                  whatever cursor and limit the request names.
EndStyles == {"nocursor", "hasmorefalse", "emptypage", "array"}

\* The end styles of an endpoint that pages with cursors.
PagedStyles == EndStyles \ {"array"}

\* The handlers only test values for equality and for emptiness, so of all
\* datasets that differ by a renaming of the key values or of the content
\* values one is enough: the one whose values appear in increasing order.
MaxOf(S) == IF S = {} THEN 0 ELSE LET x == CHOOSE y \in S : \A z \in S : z <= y IN x

Canonical(data) ==
    \A i \in 1..Len(data) :
        /\ data[i].kd_paket <= 1 + MaxOf({data[j].kd_paket : j \in 1..(i - 1)})
        /\ data[i].nama <= 1 + MaxOf({data[j].nama : j \in 1..(i - 1)})

Datasets == {data \in SeqsUpTo(Records, MaxData) : Canonical(data)}

Remotes == [data : Datasets, endStyle : PagedStyles]

\* The endpoints of the legacy API, which do not page.
ArrayRemotes == [data : Datasets, endStyle : {"array"}]

\* GET <endpoint>?limit=<limit>&tahun=<year>[&cursor=<cursor>], answered 200.
\* A cursor is the position behind the last record of the page it came with.
RemoteResponse(r, cursor, limit) ==
    LET n == Len(r.data)
        next == cursor + limit
    IN  IF r.endStyle = "array"
        THEN [isArray |-> TRUE, data |-> r.data, cursor |-> 0, has_more |-> "absent"]
        ELSE IF cursor >= n
        THEN [isArray |-> FALSE, data |-> <<>>, cursor |-> 0, has_more |-> "absent"]
        ELSE IF next < n
        THEN [isArray |-> FALSE,
              data |-> SubSeq(r.data, cursor + 1, next), cursor |-> next,
              has_more |-> IF r.endStyle = "nocursor" THEN "absent" ELSE "true"]
        ELSE [isArray |-> FALSE,
              data |-> SubSeq(r.data, cursor + 1, n),
              cursor |-> IF r.endStyle = "nocursor" THEN 0 ELSE n,
              has_more |-> CASE r.endStyle = "nocursor" -> "absent"
                             [] r.endStyle = "hasmorefalse" -> "false"
                             [] OTHER -> "true"]

\* What one attempt of fetch() can end in: an HTTP status, or 0 for a thrown
\* transport error (timeout abort, connection reset).
AttemptOutcomes == {0, 200, 404, 503}

\* res.ok
IsOk(status) == status >= 200 /\ status <= 299

\* Faulty variant of fetchWithRetryStep: a 404 is retried like a server error.
fetchWithRetryStepRetry404(status, retryCount) ==
    IF status # 0 /\ (IsOk(status) \/ status \in {400, 401})
    THEN "return"
    ELSE IF status = 0 \/ status \in {404, 429, 500, 502, 503, 504}
    THEN IF retryCount >= maxRetries THEN "throw" ELSE "retry"
    ELSE "return"

\* Faulty variant of fetchWithRetryStep: the retry test is off by one.
fetchWithRetryStepOneMore(status, retryCount) ==
    IF status # 0 /\ (IsOk(status) \/ status \in {400, 401, 404})
    THEN "return"
    ELSE IF status = 0 \/ status \in {429, 500, 502, 503, 504}
    THEN IF retryCount > maxRetries THEN "throw" ELSE "retry"
    ELSE "return"

\* One attempt of fetchWithRetry at the given retryCount:
\* "return" the response, "retry" after the backoff delay, or "throw".
fetchWithRetryStep(status, retryCount) ==
    IF status # 0 /\ (IsOk(status) \/ status \in {400, 401, 404})
    THEN "return"
    ELSE IF status = 0 \/ status \in {429, 500, 502, 503, 504}
    THEN IF retryCount >= maxRetries THEN "throw" ELSE "retry"
    ELSE "return"

\* Faulty variant of BackoffDelay: the delay grows by initialDelay per retry
\* instead of doubling.
BackoffDelayLinear(retryCount) == Min(initialDelay * (retryCount + 1), maxDelay)

\* Math.min(initialDelay * Math.pow(2, retryCount), maxDelay)
BackoffDelay(retryCount) == Min(initialDelay * Pow2(retryCount), maxDelay)

\* ---------------------------------------------------------------- sync-state
NoState == [present |-> FALSE, lastCursor |-> 0, totalRecords |-> 0, filePath |-> <<>>]

defaultState ==
    [syncState |-> [u \in Units |-> NoState],
     schedule |-> [enabled |-> FALSE, type |-> "daily", lastRun |-> 0, endpoints |-> {}]]

\* fullState.syncState[endpoint]?.[year] || null
getSyncState(fullState, unit) == fullState.syncState[unit]

\* Faulty variant of UpdatedDocument: the totalRecords of the update is dropped.
UpdatedDocumentKeepsCount(fullState, unit, update) ==
    LET existingState ==
            IF fullState.syncState[unit].present THEN fullState.syncState[unit]
            ELSE [present |-> TRUE, lastCursor |-> 0, totalRecords |-> 0,
                  filePath |-> getFilePath(unit.endpoint, unit.year)]
    IN  [fullState EXCEPT !.syncState[unit] =
            [existingState EXCEPT !.lastCursor = update.lastCursor,
                                  !.filePath = update.filePath]]

\* The document updateSyncState saves: the loaded document with the entry of
\* the unit replaced by { ...existingState, ...update }.
UpdatedDocument(fullState, unit, update) ==
    LET existingState ==
            IF fullState.syncState[unit].present THEN fullState.syncState[unit]
            ELSE [present |-> TRUE, lastCursor |-> 0, totalRecords |-> 0,
                  filePath |-> getFilePath(unit.endpoint, unit.year)]
    IN  [fullState EXCEPT !.syncState[unit] =
            [existingState EXCEPT !.lastCursor = update.lastCursor,
                                  !.totalRecords = update.totalRecords,
                                  !.filePath = update.filePath]]

\* The fields of an EndpointSyncState.
EntryFields == {"lastCursor", "lastSyncDate", "totalRecords", "filePath"}

\* No entry of sync-state.json, with the lastSyncDate the entries carry.
NoDatedState ==
    [present |-> FALSE, lastCursor |-> 0, lastSyncDate |-> 0, totalRecords |-> 0,
     filePath |-> <<>>]

\* { ...existingState, ...update }: a field the update gives replaces the
\* field of the entry.
Patched(existingState, update, field) ==
    IF field \in update.given THEN update.value[field] ELSE existingState[field]

\* Faulty variant of updateSyncState: the entry is built from the defaults
\* and the update, without the fields of the entry that was there.
updateSyncStateReplace(fullState, unit, update, t) ==
    LET existingState ==
            [present |-> TRUE, lastCursor |-> 0, lastSyncDate |-> t,
             totalRecords |-> 0, filePath |-> getFilePath(unit.endpoint, unit.year)]
    IN  [fullState EXCEPT !.syncState[unit] =
            [present |-> TRUE,
             lastCursor |-> Patched(existingState, update, "lastCursor"),
             totalRecords |-> Patched(existingState, update, "totalRecords"),
             filePath |-> Patched(existingState, update, "filePath"),
             lastSyncDate |-> t]]

\* The document updateSyncState saves at the time t, for an update that gives
\* any of the fields of an entry.  UpdatedDocument is this for the update of
\* the POST handler, which gives lastCursor, totalRecords and filePath, with
\* the lastSyncDate left out.
updateSyncState(fullState, unit, update, t) ==
    LET existingState ==
            IF fullState.syncState[unit].present THEN fullState.syncState[unit]
            ELSE [present |-> TRUE, lastCursor |-> 0, lastSyncDate |-> t,
                  totalRecords |-> 0, filePath |-> getFilePath(unit.endpoint, unit.year)]
    IN  [fullState EXCEPT !.syncState[unit] =
            [present |-> TRUE,
             lastCursor |-> Patched(existingState, update, "lastCursor"),
             totalRecords |-> Patched(existingState, update, "totalRecords"),
             filePath |-> Patched(existingState, update, "filePath"),
             lastSyncDate |-> t]]

\* delete fullState.syncState[endpoint][year]
resetSyncState(fullState, unit) ==
    [fullState EXCEPT !.syncState[unit] = NoDatedState]

\* Faulty variant of isScheduledSyncDue: the elapsed time must exceed the
\* period.
isScheduledSyncDueStrict(schedule, t) ==
    IF ~schedule.enabled THEN FALSE
    ELSE IF schedule.lastRun = 0 THEN TRUE
    ELSE LET diffHours == t - schedule.lastRun
         IN  IF schedule.type = "daily" /\ diffHours > 24 THEN TRUE
             ELSE IF schedule.type = "weekly" /\ diffHours > 168 THEN TRUE
             ELSE FALSE

\* Faulty variant of isScheduledSyncDue: the test of lastRun comes before the
\* test of enabled.
isScheduledSyncDueNullFirst(schedule, t) ==
    IF schedule.lastRun = 0 THEN TRUE
    ELSE IF ~schedule.enabled THEN FALSE
    ELSE LET diffHours == t - schedule.lastRun
         IN  IF schedule.type = "daily" /\ diffHours >= 24 THEN TRUE
             ELSE IF schedule.type = "weekly" /\ diffHours >= 168 THEN TRUE
             ELSE FALSE

\* isScheduledSyncDue at the time t (`new Date()`), in hours; lastRun = 0 is
\* the null lastRun.
isScheduledSyncDue(schedule, t) ==
    IF ~schedule.enabled THEN FALSE
    ELSE IF schedule.lastRun = 0 THEN TRUE
    ELSE LET diffHours == t - schedule.lastRun
         IN  IF schedule.type = "daily" /\ diffHours >= 24 THEN TRUE
             ELSE IF schedule.type = "weekly" /\ diffHours >= 168 THEN TRUE
             ELSE FALSE

\* Faulty variant of UpdatedSchedule: the document is written back with the
\* schedule alone.
UpdatedScheduleAlone(fullState, update) ==
    [defaultState EXCEPT
        !.schedule.enabled = IF update.hasEnabled THEN update.enabled
                             ELSE fullState.schedule.enabled,
        !.schedule.type = IF update.hasType THEN update.type
                          ELSE fullState.schedule.type,
        !.schedule.lastRun = IF update.hasLastRun THEN update.lastRun
                             ELSE fullState.schedule.lastRun]

\* updateScheduleConfig: { ...fullState.schedule, ...update }.
UpdatedSchedule(fullState, update) ==
    [fullState EXCEPT
        !.schedule.enabled = IF update.hasEnabled THEN update.enabled ELSE @,
        !.schedule.type = IF update.hasType THEN update.type ELSE @,
        !.schedule.lastRun = IF update.hasLastRun THEN update.lastRun ELSE @]

\* --------------------------------------------------------------------- state
VARIABLES
    route,      \* which copy of the POST handler serves: "batched" or "perPage"
    remote,     \* the remote collection of every unit
    files,      \* the workbook at every file path
    syncDoc,    \* sync-state.json
    params,     \* the batchSize and maxPages every request of the client carries
    inv,        \* the locals and the position of every handler invocation
    invCount,   \* invocations started so far
    completed,  \* history: the units some invocation reported complete
    now,            \* the clock, in hours
    scheduleReply,  \* the last response of GET /api/sync/schedule
    statusQuery,    \* the locals and the position of a GET /api/sync/status
    retryRun,       \* one call of fetchWithRetry, attempt by attempt
    dedupRun,       \* one call of appendToExcel on a stored table and a batch
    resync,         \* history: the accounts of a re-sync after the remote grew
    stateRun,       \* one call of updateSyncState or resetSyncState
    gate,           \* one POST /api/sync from its body to the end of the validation
    ui,             \* the SyncManager and the RangeSyncManager of one page
    drive,          \* the data folder as getFilePath lays it out
    client,         \* one run of the loop of syncEndpoint against the handler
    raced           \* history: the units on which two invocations overlapped

vars == <<route, remote, files, syncDoc, params, inv, invCount, completed,
          now, scheduleReply, statusQuery, retryRun, dedupRun, resync, stateRun,
          raced, gate, ui, drive, client>>

\* The variables of the request validation and of the client components.
frontVars == <<gate, ui, drive, client>>

\* The variables of the other handlers and of the client.
handlerVars ==
    <<now, scheduleReply, statusQuery, retryRun, dedupRun, resync, stateRun, frontVars>>

\* The variables the steps of POST /api/sync do not touch.
auxVars == <<handlerVars, raced>>

\* The variables of POST /api/sync that the other handlers do not touch.
syncVars ==
    <<route, remote, params, inv, invCount, completed, resync, stateRun, raced, frontVars>>

Routes == {"batched", "perPage"}

Procs == {1, 2}

Paths == {getFilePath(u.endpoint, u.year) : u \in Units}

PathOf(unit) == getFilePath(unit.endpoint, unit.year)

NoResult ==
    [success |-> FALSE, status |-> 0, hasProgress |-> FALSE, newRecords |-> 0,
     duplicatesSkipped |-> 0, totalRecords |-> 0, isComplete |-> FALSE,
     hasError |-> FALSE, verificationStatus |-> "none"]

IdleInv ==
    [pc |-> "idle",
     unit |-> CHOOSE u \in Units : TRUE,
     currentState |-> NoState,
     currentCursor |-> 0,
     finalVerification |-> "unchecked",
     totalNewRecords |-> 0, totalDuplicatesSkipped |-> 0,
     pagesFetched |-> 0, isComplete |-> FALSE,
     accumulatedData |-> <<>>, finalCursor |-> 0,
     retryCount |-> 0,
     pageData |-> <<>>, nextCursor |-> 0, hasMoreFalse |-> FALSE,
     newData |-> <<>>,
     loaded |-> [records |-> <<>>, keys |-> {}, keyFields |-> <<>>],
     newState |-> NoState,
     fullState |-> defaultState,
     result |-> NoResult,
     \* history, not read by the handler
     stop |-> "none", fetched |-> <<>>, preEntry |-> NoState, preFile |-> NoFile,
     preAppendEntry |-> NoState, wasComplete |-> FALSE, failedCursor |-> 0,
     ioDone |-> FALSE]

\* No response of GET /api/sync/schedule yet.
NoReply == [present |-> FALSE, isDue |-> FALSE]

\* No GET /api/sync/status under way.
IdleQuery ==
    [pc |-> "idle", mode |-> "all", verifyFiles |-> TRUE,
     allStates |-> [u \in Units |-> NoState],
     task |-> [u \in Units |-> [pc |-> "none", fullState |-> defaultState]],
     years |-> {}, reported |-> [u \in Units |-> NoState],
     \* history, not read by the handler
     storeReads |-> 0, preDoc |-> defaultState, stale |-> {}]

\* No call of fetchWithRetry under way.
IdleRetry ==
    [pc |-> "idle", retryCount |-> 0, response |-> 0, error |-> 0,
     \* history, not read by fetchWithRetry
     outcomes |-> <<>>, delays |-> <<>>]

\* No call of appendToExcel made directly.
IdleDedup ==
    [pc |-> "idle", endpoint |-> CHOOSE e \in Endpoints : TRUE,
     file |-> NoFile, newData |-> <<>>,
     result |-> FailedResult(CHOOSE e \in Endpoints : TRUE, "2024"),
     \* history, not read by appendToExcel
     preFile |-> NoFile]

\* No request at the validation.
IdleGate ==
    [pc |-> "idle", jwt |-> TRUE, body |-> [endpoint |-> <<>>, year |-> ""], status |-> 0,
     folders |-> {}, fetches |-> 0,
     \* history, not read by the handler
     before |-> {}, requests |-> 0]

\* The null of an endpoint.
NoEndpoint == [gen |-> "", cat |-> "", name |-> ""]

\* No task of a component runs.
IdleTask ==
    [pc |-> "idle", kind |-> "none", batchSyncing |-> FALSE, todo |-> <<>>,
     endpoint |-> NoEndpoint, rounds |-> 0]

\* The two components as mounted: nothing syncs, no request is in flight.
IdleUi ==
    [syncing |-> NoEndpoint, batchSyncing |-> FALSE, refreshed |-> FALSE,
     manager |-> IdleTask,
     isSyncing |-> FALSE, range |-> IdleTask,
     inFlight |-> <<>>,
     \* history, not read by the components
     calls |-> <<>>, batchDone |-> FALSE, clearedAfter |-> <<>>]

\* No table written under the data folder.
IdleDrive == [version |-> "part_005", tables |-> {}, syncs |-> 0]

\* The loop of syncEndpoint not entered.
IdleClient ==
    [pc |-> "idle", isComplete |-> FALSE,
     \* the remote: whether it ever answers, and the failed attempts so far
     remoteUp |-> TRUE, failures |-> 0,
     \* history, not read by the component
     rounds |-> 0, result |-> NoResult, writeFailed |-> FALSE]

FrontIdle == gate = IdleGate /\ ui = IdleUi /\ drive = IdleDrive /\ client = IdleClient

\* No call of updateSyncState or resetSyncState made directly.
IdleState ==
    [pc |-> "idle", op |-> "none", unit |-> CHOOSE u \in Units : TRUE,
     update |-> [given |-> {}, value |-> NoDatedState],
     fullState |-> defaultState,
     \* history, not read by the functions
     before |-> defaultState, writes |-> 0, at |-> 0, calls |-> <<>>]

\* The remote has not grown since the unit was synced.
NoResync ==
    [grown |-> FALSE, base |-> <<>>, table |-> <<>>, cursor |-> 0, added |-> <<>>,
     newRecords |-> 0, duplicatesSkipped |-> 0, totalRecords |-> 0, complete |-> FALSE,
     failed |-> FALSE]

\* The handlers other than POST /api/sync at rest.
AuxIdle ==
    /\ resync = NoResync
    /\ stateRun = IdleState
    /\ FrontIdle
    /\ raced = {}
    /\ now = 1
    /\ scheduleReply = NoReply
    /\ statusQuery = IdleQuery
    /\ retryRun = IdleRetry
    /\ dedupRun = IdleDedup

\* POST /api/sync at rest, nothing synced.
SyncIdle ==
    /\ route = "batched"
    /\ remote = [u \in Units |-> [data |-> <<>>, endStyle |-> "nocursor"]]
    /\ params = [batchSize |-> 1, maxPages |-> 1]
    /\ inv = [p \in Procs |-> IdleInv]
    /\ invCount = 0
    /\ completed = {}

Init ==
    /\ AuxIdle
    /\ route \in Routes
    /\ \E r \in Remotes : remote = [u \in Units |-> r]
    /\ params \in [batchSize : 1..MaxBatchSize, maxPages : 1..MaxPagesArg]
    /\ files = [f \in Paths |-> NoFile]
    /\ syncDoc = defaultState
    /\ inv = [p \in Procs |-> IdleInv]
    /\ invCount = 0
    /\ completed = {}

\* ------------------------------------------------------------ POST /api/sync
Put(p, l) == inv' = [inv EXCEPT ![p] = l]

\* Faulty variant of SyncResult: every result with success is complete.
SyncResultComplete(l, fileInfo, hasError, verification) ==
    [success |-> TRUE, status |-> 200, hasProgress |-> TRUE,
     newRecords |-> l.totalNewRecords,
     duplicatesSkipped |-> l.totalDuplicatesSkipped,
     totalRecords |-> fileInfo.recordCount,
     isComplete |-> TRUE,
     hasError |-> hasError,
     verificationStatus |-> verification]

\* The SyncResult a handler returns with success: true.
SyncResult(l, fileInfo, hasError, verification) ==
    [success |-> TRUE, status |-> 200, hasProgress |-> TRUE,
     newRecords |-> l.totalNewRecords,
     duplicatesSkipped |-> l.totalDuplicatesSkipped,
     totalRecords |-> fileInfo.recordCount,
     isComplete |-> l.isComplete,
     hasError |-> hasError,
     verificationStatus |-> verification]

\* The outer catch: { success: false, error: error.message }, status 500.
ErrorResult ==
    [NoResult EXCEPT !.status = 500, !.hasError = TRUE]

\* After the paging loop: the bulk write of the batched handler, if there is
\* anything to write (the per-page handler accumulates nothing and goes on to
\* the final file info).
AfterLoop(l) ==
    IF Len(l.accumulatedData) > 0
    THEN [l EXCEPT !.pc = "appendLoad", !.newData = l.accumulatedData]
    ELSE [l EXCEPT !.pc = "finalInfo"]

\* Faulty variant of LoopHead: the loop runs for one page beyond the budget.
LoopHeadOneMore(l) ==
    IF l.pagesFetched <= params.maxPages
    THEN [l EXCEPT !.pc = "fetch", !.retryCount = 0]
    ELSE AfterLoop([l EXCEPT !.stop = "budget"])

\* while (pagesFetched < maxPages)
LoopHead(l) ==
    IF l.pagesFetched < params.maxPages
    THEN [l EXCEPT !.pc = "fetch", !.retryCount = 0]
    ELSE AfterLoop([l EXCEPT !.stop = "budget"])

\* The batched handler on a 200 response: normalise, accumulate, go on or stop.
BatchedPage(l, resp) ==
    LET pageData == resp.data
        nextCursor == IF resp.isArray THEN 0 ELSE resp.cursor
        hasMoreData == ~resp.isArray /\ nextCursor # 0 /\ resp.has_more # "false"
    IN  IF Len(pageData) = 0
        THEN AfterLoop([l EXCEPT
                 !.isComplete = IF l.pagesFetched = 0 /\ Len(l.accumulatedData) = 0
                                THEN TRUE ELSE l.isComplete,
                 !.stop = "emptyPage"])
        ELSE LET l2 == [l EXCEPT !.accumulatedData = l.accumulatedData \o pageData,
                                 !.finalCursor = nextCursor,
                                 !.currentCursor = nextCursor,
                                 !.pagesFetched = l.pagesFetched + 1,
                                 !.fetched = l.fetched \o pageData]
             IN  IF ~hasMoreData
                 THEN AfterLoop([l2 EXCEPT !.isComplete = TRUE, !.stop = "noMore"])
                 ELSE LoopHead(l2)

\* The per-page handler on a 200 response: an empty page completes, any
\* other page is appended at once.  It reads the page as result.data, which a
\* bare array does not have.
PerPagePage(l, resp) ==
    LET pageData == IF resp.isArray THEN <<>> ELSE resp.data
    IN  IF Len(pageData) = 0
        THEN [l EXCEPT !.isComplete = TRUE, !.stop = "emptyPage", !.pc = "finalInfo"]
        ELSE [l EXCEPT !.pc = "appendLoad",
                       !.newData = pageData,
                       !.nextCursor = resp.cursor,
                       !.hasMoreFalse = (resp.has_more = "false"),
                       !.fetched = l.fetched \o pageData]

\* Faulty variant of PageFailed: the batched handler drops the accumulated pages.
PageFailedDiscard(l, why) ==
    IF route = "batched"
    THEN [l EXCEPT !.stop = why, !.failedCursor = l.currentCursor, !.pc = "finalInfo"]
    ELSE [l EXCEPT !.stop = why, !.failedCursor = l.currentCursor, !.pc = "catchInfo"]

\* Faulty variant of PageFailed: the batched handler loses the cursor of the
\* page that failed and stores a null cursor with the earlier pages.
PageFailedForgetsCursor(l, why) ==
    IF route = "batched"
    THEN AfterLoop([l EXCEPT !.stop = why, !.failedCursor = l.currentCursor,
                             !.finalCursor = 0])
    ELSE [l EXCEPT !.stop = why, !.failedCursor = l.currentCursor, !.pc = "catchInfo"]

\* The catch around one page: the batched handler breaks out of the loop and
\* writes what it has, the per-page handler returns the partial result.
PageFailed(l, why) ==
    IF route = "batched"
    THEN AfterLoop([l EXCEPT !.stop = why, !.failedCursor = l.currentCursor])
    ELSE [l EXCEPT !.stop = why, !.failedCursor = l.currentCursor, !.pc = "catchInfo"]

\* request.json(), the validation, ensureEndpointFolder.
Requested(p, units) ==
    /\ inv[p].pc = "idle"
    /\ \E unit \in units :
          /\ Put(p, [IdleInv EXCEPT !.pc = "getSyncState", !.unit = unit])
          /\ raced' = IF \E q \in Procs \ {p} : inv[q].pc # "idle" /\ inv[q].unit = unit
                      THEN raced \cup {unit} ELSE raced
    /\ invCount' = invCount + 1

PostStart(p, units) ==
    /\ invCount < MaxInvocations
    /\ Requested(p, units)
    /\ UNCHANGED <<handlerVars, route, remote, files, syncDoc, params, completed>>

\* Faulty variant of ResumeCursor: the file is not looked at.
ResumeCursorIgnoresFile(fileInfo, currentState) ==
    IF currentState.present /\ currentState.lastCursor # 0
    THEN currentState.lastCursor
    ELSE 0

\* The resume decision: the stored cursor when the file exists and the state
\* has a cursor, the null cursor in every other case.
ResumeCursor(fileInfo, currentState) ==
    IF fileInfo.exists /\ currentState.present /\ currentState.lastCursor # 0
    THEN currentState.lastCursor
    ELSE 0

\* const currentState = await getSyncState(endpoint, year)
PostGetSyncState(p) ==
    /\ inv[p].pc = "getSyncState"
    /\ LET s == getSyncState(syncDoc, inv[p].unit)
       IN  Put(p, [inv[p] EXCEPT !.pc = "getFileInfo", !.currentState = s,
                                 !.preEntry = s,
                                 !.wasComplete = (inv[p].unit \in completed),
                                 !.preFile = files[PathOf(inv[p].unit)],
                                 !.ioDone = TRUE])
    /\ UNCHANGED <<auxVars, route, remote, files, syncDoc, params, invCount, completed>>

\* const fileInfo = await getFileInfo(endpoint, year), and the resume decision.
PostGetFileInfo(p) ==
    /\ inv[p].pc = "getFileInfo"
    /\ LET l == inv[p]
           fileInfo == getFileInfo(files[PathOf(l.unit)])
           currentCursor == ResumeCursor(fileInfo, l.currentState)
       IN  Put(p, LoopHead([l EXCEPT !.currentCursor = currentCursor,
                                     !.finalCursor = currentCursor]))
    /\ UNCHANGED <<auxVars, route, remote, files, syncDoc, params, invCount, completed>>

\* One attempt of fetchWithRetry and, when it returns, the rest of the loop body
\* up to the next await on the file system or the network.
FetchStep(l, status) ==
    LET r == [l EXCEPT !.retryCount = 0, !.ioDone = TRUE]
        step == fetchWithRetryStep(status, l.retryCount)
        resp == RemoteResponse(remote[l.unit], l.currentCursor, params.batchSize)
    IN  CASE step = "retry" -> [l EXCEPT !.retryCount = l.retryCount + 1]
          [] step = "throw" -> PageFailed(r, "fetchError")
          [] step = "return" /\ ~IsOk(status) -> PageFailed(r, "httpError")
          [] OTHER -> IF route = "batched" THEN BatchedPage(r, resp)
                      ELSE PerPagePage(r, resp)

FetchAttempt(p) ==
    /\ inv[p].pc = "fetch"
    /\ \E status \in AttemptOutcomes : Put(p, FetchStep(inv[p], status))
    /\ UNCHANGED <<auxVars, route, remote, files, syncDoc, params, invCount, completed>>

\* appendToExcel up to the end of `await loadExistingRecords(filePath)`.
AppendLoad(p) ==
    /\ inv[p].pc = "appendLoad"
    /\ Put(p, [inv[p] EXCEPT !.pc = "appendWrite",
                             !.loaded = loadExistingRecords(files[PathOf(inv[p].unit)]),
                             !.preAppendEntry = syncDoc.syncState[inv[p].unit]])
    /\ UNCHANGED <<auxVars, route, remote, files, syncDoc, params, invCount, completed>>

\* Faulty variant of AppendSucceeded: the new state counts the records this
\* write appended instead of the records in the file.
AppendSucceededCountsNew(l, excelResult) ==
         [l EXCEPT
             !.pc = "stateLoad",
             !.totalNewRecords =
                 IF route = "batched" THEN excelResult.newRecords
                 ELSE l.totalNewRecords + excelResult.newRecords,
             !.totalDuplicatesSkipped =
                 IF route = "batched" THEN excelResult.duplicatesSkipped
                 ELSE l.totalDuplicatesSkipped + excelResult.duplicatesSkipped,
             !.newState =
                 [present |-> TRUE,
                  lastCursor |-> IF route = "batched" THEN l.finalCursor ELSE l.nextCursor,
                  totalRecords |-> excelResult.newRecords,
                  filePath |-> excelResult.filePath]]

\* The handler after a successful appendToExcel: the totals and the new state.
AppendSucceeded(l, excelResult) ==
         [l EXCEPT
             !.pc = "stateLoad",
             !.totalNewRecords =
                 IF route = "batched" THEN excelResult.newRecords
                 ELSE l.totalNewRecords + excelResult.newRecords,
             !.totalDuplicatesSkipped =
                 IF route = "batched" THEN excelResult.duplicatesSkipped
                 ELSE l.totalDuplicatesSkipped + excelResult.duplicatesSkipped,
             !.newState =
                 [present |-> TRUE,
                  lastCursor |-> IF route = "batched" THEN l.finalCursor ELSE l.nextCursor,
                  totalRecords |-> excelResult.totalRecords,
                  filePath |-> excelResult.filePath]]

\* Faulty variant of AfterAppend: excelResult.success is not looked at.
AfterAppendUnchecked(l, excelResult) ==
    AppendSucceeded(IF excelResult.success THEN l ELSE [l EXCEPT !.stop = "writeError"],
                    excelResult)

\* The handler after appendToExcel returned excelResult: a failure is thrown,
\* to the outer catch of the batched handler and to the page catch of the
\* per-page handler.
AfterAppend(l, excelResult) ==
    IF ~excelResult.success
    THEN IF route = "batched"
         THEN [l EXCEPT !.pc = "done", !.stop = "writeError", !.result = ErrorResult]
         ELSE [l EXCEPT !.pc = "catchInfo", !.stop = "writeError"]
    ELSE AppendSucceeded(l, excelResult)

\* The rest of appendToExcel: dedup, rebuild the workbook, writeFileSync.
AppendWriteOk(p) ==
    /\ inv[p].pc = "appendWrite"
    /\ LET l == inv[p]
           m == MergeResult(l.unit.endpoint, l.unit.year, l.loaded, l.newData)
       IN  /\ files' = [files EXCEPT ![PathOf(l.unit)] =
                           [exists |-> TRUE, records |-> m.allRecords, keyFields |-> m.keyFields]]
           /\ Put(p, AfterAppend(l, m))
    /\ UNCHANGED <<auxVars, route, remote, syncDoc, params, invCount, completed>>

\* writeFileSync (or anything before it) throws: appendToExcel returns
\* success: false and leaves the file alone.
AppendWriteFails(p) ==
    /\ inv[p].pc = "appendWrite"
    /\ Put(p, AfterAppend(inv[p], FailedResult(inv[p].unit.endpoint, inv[p].unit.year)))
    /\ UNCHANGED <<auxVars, route, remote, files, syncDoc, params, invCount, completed>>

\* updateSyncState up to the end of `await loadFullSyncState()`.
UpdateStateLoad(p) ==
    /\ inv[p].pc = "stateLoad"
    /\ Put(p, [inv[p] EXCEPT !.pc = "stateSave", !.fullState = syncDoc])
    /\ UNCHANGED <<auxVars, route, remote, files, syncDoc, params, invCount, completed>>

\* The handler after updateSyncState returned.
AfterUpdate(l) ==
    IF route = "batched"
    THEN [l EXCEPT !.pc = IF l.isComplete THEN "verify" ELSE "finalInfo"]
    ELSE IF l.nextCursor = 0 \/ l.hasMoreFalse
    THEN [l EXCEPT !.isComplete = TRUE, !.stop = "noMore", !.pc = "verify"]
    ELSE LoopHead([l EXCEPT !.currentCursor = l.nextCursor,
                            !.pagesFetched = l.pagesFetched + 1])

\* The rest of updateSyncState: merge the update into the entry of the unit
\* and saveFullSyncState.
UpdateStateSave(p) ==
    /\ inv[p].pc = "stateSave"
    /\ syncDoc' = UpdatedDocument(inv[p].fullState, inv[p].unit, inv[p].newState)
    /\ Put(p, AfterUpdate(inv[p]))
    /\ UNCHANGED <<auxVars, route, remote, files, params, invCount, completed>>

\* finalFileCheck.recordCount === newState.totalRecords
VerifyStatus(recordCount, totalRecords) ==
    IF recordCount = totalRecords THEN "verified" ELSE "mismatch"

\* const finalFileCheck = await getFileInfo(endpoint, year)
Verify(p) ==
    /\ inv[p].pc = "verify"
    /\ LET l == inv[p]
           finalFileCheck == getFileInfo(files[PathOf(l.unit)])
       IN  Put(p, [l EXCEPT !.pc = "finalInfo",
                            !.finalVerification =
                                VerifyStatus(finalFileCheck.recordCount, l.newState.totalRecords)])
    /\ UNCHANGED <<auxVars, route, remote, files, syncDoc, params, invCount, completed>>

\* const finalFileInfo = await getFileInfo(endpoint, year) after the loop.
FinalInfo(p) ==
    /\ inv[p].pc = "finalInfo"
    /\ LET l == inv[p]
           finalFileInfo == getFileInfo(files[PathOf(l.unit)])
       IN  IF l.finalVerification = "unchecked" /\ l.isComplete
           THEN Put(p, [l EXCEPT !.pc = "finalState",
                                 !.result = SyncResult(l, finalFileInfo, FALSE, "unchecked")])
           ELSE Put(p, [l EXCEPT !.pc = "done",
                                 !.result = SyncResult(l, finalFileInfo, FALSE,
                                                       l.finalVerification)])
    /\ UNCHANGED <<auxVars, route, remote, files, syncDoc, params, invCount, completed>>

\* Faulty variant of FinalState: the late verification compares the counts
\* without asking whether the unit has a Sync State entry at all.
FinalStateNoPresence(p) ==
    /\ inv[p].pc = "finalState"
    /\ LET l == inv[p]
           currentState == getSyncState(syncDoc, l.unit)
           v == IF currentState.totalRecords = l.result.totalRecords
                THEN "verified" ELSE "mismatch"
       IN  Put(p, [l EXCEPT !.pc = "done", !.finalVerification = v,
                            !.result = [l.result EXCEPT !.verificationStatus = v]])
    /\ UNCHANGED <<auxVars, route, remote, files, syncDoc, params, invCount, completed>>

\* const currentState = await getSyncState(endpoint, year) of the late
\* verification.
FinalState(p) ==
    /\ inv[p].pc = "finalState"
    /\ LET l == inv[p]
           currentState == getSyncState(syncDoc, l.unit)
           v == IF currentState.present
                   /\ currentState.totalRecords = l.result.totalRecords
                THEN "verified" ELSE "mismatch"
       IN  Put(p, [l EXCEPT !.pc = "done", !.finalVerification = v,
                            !.result = [l.result EXCEPT !.verificationStatus = v]])
    /\ UNCHANGED <<auxVars, route, remote, files, syncDoc, params, invCount, completed>>

\* The catch of the per-page handler: getFileInfo and the partial result with
\* isComplete: false and error: `Sync interrupted: ...`.
CatchInfo(p) ==
    /\ inv[p].pc = "catchInfo"
    /\ LET l == inv[p]
           finalFileInfo == getFileInfo(files[PathOf(l.unit)])
       IN  Put(p, [l EXCEPT !.pc = "done",
                            !.result = [SyncResult(l, finalFileInfo, TRUE, "unchecked")
                                           EXCEPT !.isComplete = FALSE]])
    /\ UNCHANGED <<auxVars, route, remote, files, syncDoc, params, invCount, completed>>

\* The response is sent; the invocation is over.
Responded(p) ==
    /\ inv[p].pc = "done"
    /\ Put(p, IdleInv)
    /\ completed' = IF inv[p].result.success /\ inv[p].result.isComplete
                     THEN completed \cup {inv[p].unit} ELSE completed

Return(p) ==
    /\ Responded(p)
    /\ UNCHANGED <<auxVars, route, remote, files, syncDoc, params, invCount>>

\* The units the client syncs when it awaits every response.
SerialUnits == {u \in Units : u.year = "2024"}

\* The steps of an invocation between the request and the response.
Work(p) ==
    \/ PostGetSyncState(p)
    \/ PostGetFileInfo(p)
    \/ FetchAttempt(p)
    \/ AppendLoad(p)
    \/ AppendWriteOk(p)
    \/ AppendWriteFails(p)
    \/ UpdateStateLoad(p)
    \/ UpdateStateSave(p)
    \/ Verify(p)
    \/ FinalInfo(p)
    \/ FinalState(p)
    \/ CatchInfo(p)

Step(p) ==
    \/ Work(p)
    \/ Return(p)

\* Invocations one at a time: the client awaits each response.
Next ==
    \/ PostStart(1, SerialUnits)
    \/ Step(1)

Spec == Init /\ [][Next]_vars

\* The same client against an endpoint that answers with bare arrays.
InitArray ==
    /\ AuxIdle
    /\ route \in Routes
    /\ \E r \in ArrayRemotes : remote = [u \in Units |-> r]
    /\ params \in [batchSize : 1..MaxBatchSize, maxPages : 1..MaxPagesArg]
    /\ files = [f \in Paths |-> NoFile]
    /\ syncDoc = defaultState
    /\ inv = [p \in Procs |-> IdleInv]
    /\ invCount = 0
    /\ completed = {}

SpecArray == InitArray /\ [][Next]_vars

\* Overlapping invocations: the client fires requests without awaiting the
\* responses (or several clients do), on any units, and the handlers
\* interleave at their awaits.
InitConc ==
    /\ Init
    /\ \A u \in Units : Len(remote[u].data) <= MaxConcData

NextConc ==
    \E p \in Procs :
        \/ PostStart(p, Units)
        \/ Step(p)

SpecConc == InitConc /\ [][NextConc]_vars

\* Overlapping invocations on one unit.
InitRace ==
    /\ Init
    /\ \A u \in Units : Len(remote[u].data) <= MaxRaceData

NextRace ==
    \E p \in Procs :
        \/ PostStart(p, SerialUnits)
        \/ Step(p)

SpecRace == InitRace /\ [][NextRace]_vars

\* ------------------------------------------------- a re-sync of a grown remote
\* A unit is synced to completion, the remote gains records with new keys,
\* and the unit is synced again, one invocation at a time.
InitResync ==
    /\ Init
    /\ \A u \in Units : Len(remote[u].data) <= MaxBase

\* The records are new to the collection: their Record Keys differ from those
\* of its records and from one another.
NewKeys(added, data, unit) ==
    LET Key(r) == IncomingKey(r, getUniqueKeyFields(unit.endpoint))
    IN  /\ \A i \in 1..Len(added) : \A j \in 1..Len(data) : Key(added[i]) # Key(data[j])
        /\ \A i, j \in 1..Len(added) : i # j => Key(added[i]) # Key(added[j])

\* The remote collection of a completed unit gains records at its end.
RemoteGrows ==
    /\ ~resync.grown
    /\ inv[1].pc = "idle"
    /\ \E unit \in SerialUnits \cap completed :
          \E added \in SeqsUpTo(Records, MaxAdded) \ {<<>>} :
             /\ NewKeys(added, remote[unit].data, unit)
             /\ remote' = [remote EXCEPT ![unit].data = @ \o added]
             /\ resync' = [NoResync EXCEPT !.grown = TRUE,
                                           !.base = remote[unit].data,
                                           !.table = files[PathOf(unit)].records,
                                           !.cursor = syncDoc.syncState[unit].lastCursor,
                                           !.added = added]
    /\ UNCHANGED <<now, scheduleReply, statusQuery, retryRun, dedupRun, stateRun, raced,
                   frontVars,
                   route, files, syncDoc, params, inv, invCount, completed>>

ResyncPostStart ==
    /\ invCount < MaxResyncInvocations
    /\ Requested(1, SerialUnits)
    /\ UNCHANGED <<handlerVars, route, remote, files, syncDoc, params, completed>>

\* The response is sent, and the client adds its counts to those of the
\* re-sync until a response says isComplete; it gives up on success: false.
ResyncReturn ==
    /\ Responded(1)
    /\ resync' = IF ~resync.grown \/ resync.complete \/ resync.failed
                  THEN resync
                  ELSE IF ~inv[1].result.success
                  THEN [resync EXCEPT !.failed = TRUE]
                  ELSE [resync EXCEPT
                          !.newRecords = @ + inv[1].result.newRecords,
                          !.duplicatesSkipped = @ + inv[1].result.duplicatesSkipped,
                          !.totalRecords = inv[1].result.totalRecords,
                          !.complete = inv[1].result.isComplete]
    /\ UNCHANGED <<now, scheduleReply, statusQuery, retryRun, dedupRun, stateRun, raced,
                   frontVars,
                   route, remote, files, syncDoc, params, invCount>>

NextResync ==
    \/ RemoteGrows
    \/ ResyncPostStart
    \/ Work(1)
    \/ ResyncReturn

SpecResync == InitResync /\ [][NextResync]_vars

\* ------------------------------------------------------------ fetchWithRetry
\* The statuses an attempt is answered with; 0 is a thrown transport error
\* (timeout abort, connection reset).
RetryOutcomes == {0, 200, 204, 301, 400, 401, 403, 404, 429, 500, 501, 502, 503, 504}

InitRetry ==
    /\ SyncIdle
    /\ files = [f \in Paths |-> NoFile]
    /\ syncDoc = defaultState
    /\ AuxIdle

\* fetchWithRetry(url, options) is called, retryCount = 0.
RetryCall ==
    /\ retryRun.pc \in {"idle", "returned", "thrown"}
    /\ retryRun' = [IdleRetry EXCEPT !.pc = "attempt"]
    /\ UNCHANGED <<syncVars, files, syncDoc, now, scheduleReply, statusQuery, dedupRun>>

\* await fetch(...) and the classification of its outcome.
RetryAttempt ==
    /\ retryRun.pc = "attempt"
    /\ \E status \in RetryOutcomes :
          LET step == fetchWithRetryStep(status, retryRun.retryCount)
              r == [retryRun EXCEPT !.outcomes = Append(retryRun.outcomes, status)]
          IN  retryRun' =
                 CASE step = "return" -> [r EXCEPT !.pc = "returned", !.response = status]
                   [] step = "throw" -> [r EXCEPT !.pc = "thrown", !.error = status]
                   [] OTHER -> [r EXCEPT !.pc = "delay",
                                         !.delays = Append(r.delays,
                                                           BackoffDelay(r.retryCount))]
    /\ UNCHANGED <<syncVars, files, syncDoc, now, scheduleReply, statusQuery, dedupRun>>

\* The backoff delay is over: fetchWithRetry(url, options, retryCount + 1).
RetryAgain ==
    /\ retryRun.pc = "delay"
    /\ retryRun' = [retryRun EXCEPT !.pc = "attempt", !.retryCount = retryRun.retryCount + 1]
    /\ UNCHANGED <<syncVars, files, syncDoc, now, scheduleReply, statusQuery, dedupRun>>

NextRetry == RetryCall \/ RetryAttempt \/ RetryAgain

SpecRetry == InitRetry /\ [][NextRetry]_vars

\* ----------------------------------------------------- /api/sync/schedule
\* sync-state.json before the schedule requests: nothing synced, or one unit
\* synced to the end with one record.
ScheduleDocs ==
    {defaultState,
     [defaultState EXCEPT
         !.syncState[CHOOSE u \in Units : TRUE] =
             [present |-> TRUE, lastCursor |-> 0, totalRecords |-> 1,
              filePath |-> PathOf(CHOOSE u \in Units : TRUE)]]}

InitSchedule ==
    /\ SyncIdle
    /\ files = [f \in Paths |-> NoFile]
    /\ syncDoc \in ScheduleDocs
    /\ AuxIdle

\* Time passes.  scheduleReply is the response to a GET made since the clock
\* or the schedule last moved.
Tick ==
    /\ now < MaxHours
    /\ now' = now + 1
    /\ scheduleReply' = NoReply
    /\ UNCHANGED <<syncVars, files, syncDoc, statusQuery, retryRun, dedupRun>>

\* The updates POST builds from the body: enabled when it is a boolean, type
\* when it is 'daily' or 'weekly'.
ScheduleUpdates ==
    [hasEnabled : BOOLEAN, enabled : BOOLEAN, hasType : BOOLEAN,
     type : {"daily", "weekly"}, hasLastRun : {FALSE}, lastRun : {0}]

\* POST /api/sync/schedule
SchedulePost ==
    /\ \E update \in ScheduleUpdates : syncDoc' = UpdatedSchedule(syncDoc, update)
    /\ scheduleReply' = NoReply
    /\ UNCHANGED <<syncVars, files, now, statusQuery, retryRun, dedupRun>>

\* PUT /api/sync/schedule: lastRun = new Date().toISOString()
SchedulePut ==
    /\ syncDoc' = UpdatedSchedule(syncDoc,
                      [hasEnabled |-> FALSE, enabled |-> FALSE, hasType |-> FALSE,
                       type |-> "daily", hasLastRun |-> TRUE, lastRun |-> now])
    /\ scheduleReply' = NoReply
    /\ UNCHANGED <<syncVars, files, now, statusQuery, retryRun, dedupRun>>

\* GET /api/sync/schedule: { schedule, isDue }
ScheduleGet ==
    /\ scheduleReply' = [present |-> TRUE,
                         isDue |-> isScheduledSyncDue(syncDoc.schedule, now)]
    /\ UNCHANGED <<syncVars, files, syncDoc, now, statusQuery, retryRun, dedupRun>>

NextSchedule == Tick \/ SchedulePost \/ SchedulePut \/ ScheduleGet

SpecSchedule == InitSchedule /\ [][NextSchedule]_vars

\* ------------------------------------------------------ GET /api/sync/status
\* What a finished sync that stored n records left behind: the file with n
\* records of distinct keys and the Sync State entry that counts them.
SyncedFile(n) ==
    [exists |-> TRUE,
     records |-> [i \in 1..n |-> [kd_paket |-> i, nama |-> 1]],
     keyFields |-> getUniqueKeyFields(CHOOSE e \in Endpoints : TRUE)]

SyncedEntry(unit, n) ==
    [present |-> TRUE, lastCursor |-> n, totalRecords |-> n,
     filePath |-> getFilePath(unit.endpoint, unit.year)]

\* Every unit was never synced or was synced to some number of records.
InitStatus ==
    /\ SyncIdle
    /\ resync = NoResync
    /\ stateRun = IdleState
    /\ FrontIdle
    /\ raced = {}
    /\ now = 1
    /\ scheduleReply = NoReply
    /\ statusQuery = IdleQuery
    /\ retryRun = IdleRetry
    /\ dedupRun = IdleDedup
    /\ \E count \in [Units -> 0..MaxStored] :
          /\ files = [f \in Paths |->
                        LET u == CHOOSE u \in Units : PathOf(u) = f
                        IN  IF count[u] = 0 THEN NoFile ELSE SyncedFile(count[u])]
          /\ syncDoc = [defaultState EXCEPT !.syncState =
                           [u \in Units |-> IF count[u] = 0 THEN NoState
                                            ELSE SyncedEntry(u, count[u])]]

\* The file of a unit is removed (deleteDataFile, or by hand) while no status
\* query and no sync runs.
FileDeleted(unit) ==
    /\ statusQuery.pc # "run"
    /\ \A p \in Procs : inv[p].pc = "idle"
    /\ files[PathOf(unit)].exists
    /\ files' = [files EXCEPT ![PathOf(unit)] = NoFile]
    /\ UNCHANGED <<syncVars, syncDoc, now, scheduleReply, statusQuery, retryRun, dedupRun>>

\* state?.totalRecords && !fileInfo.exists
IsStale(state, fileInfo) == state.present /\ state.totalRecords # 0 /\ ~fileInfo.exists

\* The units whose entry claims records while their file does not exist.
StaleUnits == {u \in Units : IsStale(syncDoc.syncState[u], getFileInfo(files[PathOf(u)]))}

\* GET with endpoint and year: await getSyncState(endpoint, year).
StatusStartOne(unit, verifyFiles) ==
    /\ statusQuery.pc # "run"
    /\ statusQuery' = [IdleQuery EXCEPT
          !.pc = "run", !.mode = "one", !.verifyFiles = verifyFiles,
          !.allStates = syncDoc.syncState,
          !.years = {unit},
          !.task = [u \in Units |-> [pc |-> IF u = unit THEN "fileInfo" ELSE "none",
                                     fullState |-> defaultState]],
          !.preDoc = syncDoc,
          !.stale = StaleUnits \cap {unit}]
    /\ UNCHANGED <<syncVars, files, syncDoc, now, scheduleReply, retryRun, dedupRun>>

\* GET without endpoint and year: await getAllSyncStates(), and one mapper per
\* year that has an entry, all started under Promise.all.
StatusStartAll(verifyFiles) ==
    /\ statusQuery.pc # "run"
    /\ LET years == {u \in Units : syncDoc.syncState[u].present}
       IN  statusQuery' = [IdleQuery EXCEPT
              !.pc = "run", !.mode = "all", !.verifyFiles = verifyFiles,
              !.allStates = syncDoc.syncState,
              !.years = years,
              !.task = [u \in Units |-> [pc |-> IF u \in years THEN "fileInfo" ELSE "none",
                                         fullState |-> defaultState]],
              !.preDoc = syncDoc,
              !.stale = StaleUnits]
    /\ UNCHANGED <<syncVars, files, syncDoc, now, scheduleReply, retryRun, dedupRun>>

\* const fileInfo = await getFileInfo(...), the staleness test, and for an
\* entry that is not reset the state put in the response.
StatusGetFileInfo(unit) ==
    /\ statusQuery.pc = "run"
    /\ statusQuery.task[unit].pc = "fileInfo"
    /\ LET state == statusQuery.allStates[unit]
           fileInfo == getFileInfo(files[PathOf(unit)])
       IN  statusQuery' =
              IF statusQuery.verifyFiles /\ IsStale(state, fileInfo)
              THEN [statusQuery EXCEPT !.task[unit].pc = "resetLoad",
                                       !.storeReads = @ + 1]
              ELSE [statusQuery EXCEPT
                      !.task[unit].pc = "done",
                      !.storeReads = @ + 1,
                      !.reported[unit] =
                          IF statusQuery.mode = "one" THEN state
                          ELSE [state EXCEPT !.present = TRUE,
                                             !.totalRecords = fileInfo.recordCount]]
    /\ UNCHANGED <<syncVars, files, syncDoc, now, scheduleReply, retryRun, dedupRun>>

\* resetSyncState: const fullState = await loadFullSyncState(), and the delete.
StatusResetLoad(unit) ==
    /\ statusQuery.pc = "run"
    /\ statusQuery.task[unit].pc = "resetLoad"
    /\ statusQuery' =
          IF syncDoc.syncState[unit].present
          THEN [statusQuery EXCEPT
                  !.task[unit].pc = "resetSave",
                  !.task[unit].fullState = [syncDoc EXCEPT !.syncState[unit] = NoState]]
          ELSE [statusQuery EXCEPT !.task[unit].pc = "done"]
    /\ UNCHANGED <<syncVars, files, syncDoc, now, scheduleReply, retryRun, dedupRun>>

\* resetSyncState: await saveFullSyncState(fullState).
StatusResetSave(unit) ==
    /\ statusQuery.pc = "run"
    /\ statusQuery.task[unit].pc = "resetSave"
    /\ syncDoc' = statusQuery.task[unit].fullState
    /\ statusQuery' = [statusQuery EXCEPT !.task[unit].pc = "done",
                                          !.task[unit].fullState = defaultState]
    /\ UNCHANGED <<syncVars, files, now, scheduleReply, retryRun, dedupRun>>

\* Every mapper is through: the response is sent.
StatusReturn ==
    /\ statusQuery.pc = "run"
    /\ \A u \in Units : statusQuery.task[u].pc \in {"none", "done"}
    /\ statusQuery' = [statusQuery EXCEPT !.pc = "done"]
    /\ UNCHANGED <<syncVars, files, syncDoc, now, scheduleReply, retryRun, dedupRun>>

NextStatus ==
    \/ \E u \in Units : FileDeleted(u)
    \/ \E u \in Units, v \in BOOLEAN : StatusStartOne(u, v)
    \/ \E v \in BOOLEAN : StatusStartAll(v)
    \/ \E u \in Units : StatusGetFileInfo(u)
    \/ \E u \in Units : StatusResetLoad(u)
    \/ \E u \in Units : StatusResetSave(u)
    \/ StatusReturn

SpecStatus == InitStatus /\ [][NextStatus]_vars

\* ------------------------------------- updateSyncState, resetSyncState, directly
\* The entries a stored document has for a unit: none, or one written at hour 1.
StoredEntries(unit) ==
    {NoDatedState} \cup
    [present : {TRUE}, lastCursor : 0..1, lastSyncDate : {1}, totalRecords : {1},
     filePath : {getFilePath(unit.endpoint, unit.year)}]

\* The updates a caller passes: any set of fields, with values no stored entry
\* has (and a lastSyncDate of the past).
StateUpdates ==
    [given : SUBSET EntryFields,
     value : [present : {TRUE}, lastCursor : {2}, lastSyncDate : {1},
              totalRecords : {2}, filePath : {<<"other", "moved">>}]]

InitState ==
    /\ SyncIdle
    /\ files = [f \in Paths |-> NoFile]
    /\ \E syncState \in [Units -> UNION {StoredEntries(u) : u \in Units}],
          enabled \in BOOLEAN :
          /\ \A u \in Units : syncState[u] \in StoredEntries(u)
          /\ syncDoc = [syncState |-> syncState,
                        schedule |-> [defaultState.schedule EXCEPT !.enabled = enabled]]
    /\ resync = NoResync
    /\ stateRun = IdleState
    /\ FrontIdle
    /\ raced = {}
    /\ now = 2
    /\ scheduleReply = NoReply
    /\ statusQuery = IdleQuery
    /\ retryRun = IdleRetry
    /\ dedupRun = IdleDedup

\* Time passes.
StateTick ==
    /\ now < MaxStateHours
    /\ now' = now + 1
    /\ UNCHANGED <<route, remote, params, inv, invCount, completed, resync, raced,
                   files, syncDoc, scheduleReply, statusQuery, retryRun, dedupRun,
                   stateRun, frontVars>>

StateUnchanged ==
    UNCHANGED <<route, remote, params, inv, invCount, completed, resync, raced,
                files, now, scheduleReply, statusQuery, retryRun, dedupRun, frontVars>>

\* The locals of a call at the end of `await loadFullSyncState()`.
StateCalled(op, unit, update) ==
    [IdleState EXCEPT !.pc = "loaded", !.op = op, !.unit = unit,
                      !.update = update,
                      !.fullState = syncDoc,
                      !.before = syncDoc,
                      !.calls = Append(stateRun.calls, op)]

\* updateSyncState(endpoint, year, update) is called.
StateUpdateCall ==
    /\ stateRun.pc \in {"idle", "done"}
    /\ Len(stateRun.calls) < MaxStateCalls
    /\ \E unit \in Units, update \in StateUpdates :
          stateRun' = StateCalled("update", unit, update)
    /\ UNCHANGED syncDoc
    /\ StateUnchanged

\* resetSyncState(endpoint, year) is called.
StateResetCall ==
    /\ stateRun.pc \in {"idle", "done"}
    /\ Len(stateRun.calls) < MaxStateCalls
    /\ \E unit \in Units : stateRun' = StateCalled("reset", unit, IdleState.update)
    /\ UNCHANGED syncDoc
    /\ StateUnchanged

\* updateSyncState from the merge to the end of saveFullSyncState.
StateUpdateSave ==
    /\ stateRun.pc = "loaded" /\ stateRun.op = "update"
    /\ syncDoc' = updateSyncState(stateRun.fullState, stateRun.unit, stateRun.update, now)
    /\ stateRun' = [stateRun EXCEPT !.pc = "done", !.writes = 1, !.at = now]
    /\ StateUnchanged

\* resetSyncState from the test of the entry to its end.
StateResetSave ==
    /\ stateRun.pc = "loaded" /\ stateRun.op = "reset"
    /\ IF stateRun.fullState.syncState[stateRun.unit].present
       THEN /\ syncDoc' = resetSyncState(stateRun.fullState, stateRun.unit)
            /\ stateRun' = [stateRun EXCEPT !.pc = "done", !.writes = 1, !.at = now]
       ELSE /\ UNCHANGED syncDoc
            /\ stateRun' = [stateRun EXCEPT !.pc = "done", !.at = now]
    /\ StateUnchanged

NextState ==
    \/ StateTick
    \/ StateUpdateCall
    \/ StateResetCall
    \/ StateUpdateSave
    \/ StateResetSave

SpecState == InitState /\ [][NextState]_vars

\* ----------------------------------------- POST /api/sync, the request validation
\* The endpoints a request body can name: the paths of the catalog that end in
\* a table or in a detail endpoint, under the prefixes /v1/ and /legacy/ and
\* under one that is neither; <<>> is a body without the field.
detailEndpoints == {"penyedia-distributor-detail", "komoditas-detail", "penyedia-detail"}

BodyEndpoints ==
    {<<>>} \cup
    [gen : {"v1", "legacy", "v2"}, cat : {"ekatalog-archive"},
     name : {"paket-e-purchasing"} \cup detailEndpoints]

\* The bodies of a request; "" is a body without the year.
Bodies == [endpoint : BodyEndpoints, year : {"", "2024"}]

\* endpoint.includes(de), on paths whose segments are whole names.
Includes(endpoint, de) == endpoint.cat = de \/ endpoint.name = de

\* The status the handler rejects a request with, 0 when it goes on to
\* ensureEndpointFolder.  The per-page handler admits the prefix /v1/ only and
\* has no list of detail endpoints.
Validate(which, jwt, body) ==
    IF body.endpoint = <<>> \/ body.year = "" THEN 400
    ELSE IF ~jwt THEN 500
    ELSE IF which = "batched"
    THEN IF body.endpoint.gen \notin {"v1", "legacy"} THEN 400
         ELSE IF \E de \in detailEndpoints : Includes(body.endpoint, de) THEN 400
         ELSE 0
    ELSE IF body.endpoint.gen # "v1" THEN 400
         ELSE 0

\* A deployment with or without JWT_TOKEN, before its first request.
InitGate ==
    /\ route \in Routes
    /\ remote = [u \in Units |-> [data |-> <<>>, endStyle |-> "nocursor"]]
    /\ params = [batchSize |-> 1, maxPages |-> 1]
    /\ inv = [p \in Procs |-> IdleInv]
    /\ invCount = 0
    /\ completed = {}
    /\ files = [f \in Paths |-> NoFile]
    /\ syncDoc = defaultState
    /\ resync = NoResync
    /\ stateRun = IdleState
    /\ raced = {}
    /\ now = 1
    /\ scheduleReply = NoReply
    /\ statusQuery = IdleQuery
    /\ retryRun = IdleRetry
    /\ dedupRun = IdleDedup
    /\ \E jwt \in BOOLEAN : gate = [IdleGate EXCEPT !.jwt = jwt]
    /\ ui = IdleUi
    /\ drive = IdleDrive
    /\ client = IdleClient

GateUnchanged ==
    UNCHANGED <<route, remote, params, inv, invCount, completed, resync, raced,
                files, syncDoc, now, scheduleReply, statusQuery, retryRun, dedupRun,
                stateRun, ui, drive, client>>

\* POST from `await request.json()` to the end of the validation.
GatePost ==
    /\ gate.pc \in {"idle", "done"}
    /\ gate.requests < MaxGateRequests
    /\ \E body \in Bodies :
          LET status == Validate(route, gate.jwt, body)
          IN  gate' = [gate EXCEPT !.pc = IF status = 0 THEN "folder" ELSE "done",
                                   !.body = body, !.status = status,
                                   !.fetches = 0,
                                   !.before = gate.folders,
                                   !.requests = gate.requests + 1]
    /\ GateUnchanged

\* await ensureEndpointFolder(endpoint)
GateEnsureFolder ==
    /\ gate.pc = "folder"
    /\ gate' = [gate EXCEPT !.pc = "fetch",
                            !.folders = gate.folders \cup {getFolderPath(gate.body.endpoint)}]
    /\ GateUnchanged

\* The handler up to the end of its first fetchWithRetry; what it does with
\* the response is the business of the paging loop.
GateFetch ==
    /\ gate.pc = "fetch"
    /\ gate' = [gate EXCEPT !.pc = "done", !.fetches = 1, !.status = 200]
    /\ GateUnchanged

NextGate == GatePost \/ GateEnsureFolder \/ GateFetch

SpecGate == InitGate /\ [][NextGate]_vars

\* ------------------------------------- SyncManager and RangeSyncManager
\* ENDPOINTS, cut down to a catalog that has, in catalog order, tables and
\* detail endpoints of both API generations, and a table name that two
\* categories of the legacy API share.
ENDPOINTS ==
    << [value |-> [gen |-> "v1", cat |-> "ekatalog-archive", name |-> "paket-e-purchasing"],
        type |-> "v1", requiresId |-> FALSE],
       [value |-> [gen |-> "v1", cat |-> "ekatalog-archive", name |-> "komoditas-detail"],
        type |-> "v1", requiresId |-> TRUE],
       [value |-> [gen |-> "v1", cat |-> "rup", name |-> "master-satker"],
        type |-> "v1", requiresId |-> FALSE],
       [value |-> [gen |-> "legacy", cat |-> "ekatalog-archive", name |-> "paket-e-purchasing"],
        type |-> "legacy", requiresId |-> FALSE],
       [value |-> [gen |-> "legacy", cat |-> "ekatalog", name |-> "penyedia-detail"],
        type |-> "legacy", requiresId |-> TRUE],
       [value |-> [gen |-> "legacy", cat |-> "ekatalog", name |-> "paket-e-purchasing"],
        type |-> "legacy", requiresId |-> FALSE] >>

\* ENDPOINTS.filter(ep => !ep.requiresId)
NotRequiresId(ep) == ~ep.requiresId

getSyncableEndpoints == SelectSeq(ENDPOINTS, NotRequiresId)

\* allEndpoints.filter(ep => ep.type === activeTab)
OfV1(ep) == ep.type = "v1"
OfLegacy(ep) == ep.type = "legacy"
TargetEndpoints(activeTab) ==
    IF activeTab = "v1" THEN SelectSeq(getSyncableEndpoints, OfV1)
    ELSE SelectSeq(getSyncableEndpoints, OfLegacy)

\* What a POST /api/sync is answered with, as far as the loops of the
\* components tell answers apart: success with isComplete, success without,
\* and success: false.
Answers == {"complete", "more", "fail"}

InitUi ==
    /\ SyncIdle
    /\ files = [f \in Paths |-> NoFile]
    /\ syncDoc = defaultState
    /\ AuxIdle

UiUnchanged ==
    UNCHANGED <<route, remote, params, inv, invCount, completed, resync, raced,
                files, syncDoc, now, scheduleReply, statusQuery, retryRun, dedupRun,
                stateRun, gate, drive, client>>

\* The requests in flight once the oldest request `request` has its response.
Answered(inFlight, request) ==
    LET first == CHOOSE i \in 1..Len(inFlight) :
                     /\ inFlight[i] = request
                     /\ \A j \in 1..(i - 1) : inFlight[j] # request
    IN  [i \in 1..(Len(inFlight) - 1) |->
            IF i < first THEN inFlight[i] ELSE inFlight[i + 1]]

\* The button guard without its test of syncing: disabled={batchSyncing}.
ButtonDisabledBatchOnly(u) == u.batchSyncing

\* disabled={syncing !== null || batchSyncing} of the sync button of every
\* endpoint, disabled={batchSyncing || syncing !== null} of the batch button.
ButtonDisabled(u) == u.syncing # NoEndpoint \/ u.batchSyncing

\* The loop of batchSync from the test of its next turn to the next await:
\* `if (!batchSyncing) break` reads the batchSyncing of the render the
\* function was made in, which is task.batchSyncing.  After the loop the flag
\* is cleared; the fetchStatus behind it sends no sync request and is left out.
BatchLoop(u, task) ==
    IF task.todo = <<>> \/ ~task.batchSyncing
    THEN [u EXCEPT !.batchSyncing = FALSE, !.manager = IdleTask,
                   !.batchDone = TRUE, !.clearedAfter = u.calls]
    ELSE [u EXCEPT !.syncing = Head(task.todo).value,
                   !.calls = Append(u.calls, Head(task.todo).value),
                   !.manager = [task EXCEPT !.pc = "request",
                                            !.endpoint = Head(task.todo).value,
                                            !.todo = Tail(task.todo),
                                            !.rounds = 0]]

\* The end of syncEndpoint of the SyncManager: finally { setSyncing(null) },
\* and the return to batchSync when that called it.
ManagerFinish(u) ==
    LET cleared == [u EXCEPT !.syncing = NoEndpoint]
    IN  IF u.manager.kind = "batch" THEN BatchLoop(cleared, u.manager)
        ELSE [cleared EXCEPT !.manager = IdleTask]

\* A click on the sync button of an endpoint, which is enabled unless
\* syncing !== null || batchSyncing: syncEndpoint up to its first fetch.
ManagerClickSync ==
    /\ ~ButtonDisabled(ui)
    /\ \E i \in 1..Len(getSyncableEndpoints) :
          ui' = [ui EXCEPT !.syncing = getSyncableEndpoints[i].value,
                           !.refreshed = FALSE,
                           !.manager = [IdleTask EXCEPT
                                           !.pc = "request", !.kind = "single",
                                           !.batchSyncing = ui.batchSyncing,
                                           !.endpoint = getSyncableEndpoints[i].value]]
    /\ UiUnchanged

\* A click on the batch button, enabled under the same condition: batchSync up
\* to its first await.
ManagerClickBatch ==
    /\ ~ButtonDisabled(ui)
    /\ ui' = BatchLoop([ui EXCEPT !.batchSyncing = TRUE, !.calls = <<>>,
                                  !.batchDone = FALSE, !.clearedAfter = <<>>],
                       [IdleTask EXCEPT !.kind = "batch",
                                        !.batchSyncing = ui.batchSyncing,
                                        !.todo = getSyncableEndpoints])
    /\ UiUnchanged

\* fetch('/api/sync', { method: 'POST', ... }) of the SyncManager is sent.
ManagerPost ==
    /\ ui.manager.pc = "request"
    /\ ui' = [ui EXCEPT !.manager.pc = "await",
                        !.inFlight = Append(@, [by |-> "manager",
                                                endpoint |-> ui.manager.endpoint])]
    /\ UiUnchanged

\* The response arrives: the rest of the loop body of syncEndpoint.
ManagerResponse ==
    /\ ui.manager.pc = "await"
    /\ \E answer \in Answers :
          LET u == [ui EXCEPT !.inFlight =
                       Answered(@, [by |-> "manager", endpoint |-> ui.manager.endpoint])]
          IN  CASE answer = "more" ->
                     /\ ui.manager.rounds < MaxRounds
                     /\ ui' = [u EXCEPT !.manager.pc = "request",
                                        !.manager.rounds = @ + 1]
                [] answer = "complete" ->
                     ui' = IF ~ui.manager.batchSyncing
                           THEN [u EXCEPT !.manager.pc = "status"]
                           ELSE ManagerFinish(u)
                [] OTHER -> ui' = ManagerFinish(u)
    /\ UiUnchanged

\* `await fetchStatus(true)` of syncEndpoint is over: the statuses shown are
\* those after the sync.
ManagerStatusDone ==
    /\ ui.manager.pc = "status"
    /\ ui' = ManagerFinish([ui EXCEPT !.refreshed = TRUE])
    /\ UiUnchanged

\* The loop of handleRangeSync over the target endpoints of one year, from
\* the end of one syncEndpoint to the first fetch of the next.
RangeLoop(u, task) ==
    IF task.todo = <<>>
    THEN [u EXCEPT !.isSyncing = FALSE, !.range = IdleTask]
    ELSE [u EXCEPT !.range = [task EXCEPT !.pc = "request",
                                          !.endpoint = Head(task.todo).value,
                                          !.todo = Tail(task.todo),
                                          !.rounds = 0]]

\* A click on the range sync button, enabled unless rangeSyncConfig.isSyncing.
RangeClick ==
    /\ ~ui.isSyncing
    /\ \E activeTab \in {"v1", "legacy"} :
          ui' = RangeLoop([ui EXCEPT !.isSyncing = TRUE],
                          [IdleTask EXCEPT !.kind = "range",
                                           !.todo = TargetEndpoints(activeTab)])
    /\ UiUnchanged

\* fetch('/api/sync', { method: 'POST', ... }) of the RangeSyncManager is sent.
RangePost ==
    /\ ui.range.pc = "request"
    /\ ui' = [ui EXCEPT !.range.pc = "await",
                        !.inFlight = Append(@, [by |-> "range",
                                                endpoint |-> ui.range.endpoint])]
    /\ UiUnchanged

\* The response arrives: the rest of the loop body of its syncEndpoint.
RangeResponse ==
    /\ ui.range.pc = "await"
    /\ \E answer \in Answers :
          LET u == [ui EXCEPT !.inFlight =
                       Answered(@, [by |-> "range", endpoint |-> ui.range.endpoint])]
          IN  IF answer = "more"
              THEN /\ ui.range.rounds < MaxRounds
                   /\ ui' = [u EXCEPT !.range.pc = "request", !.range.rounds = @ + 1]
              ELSE ui' = RangeLoop(u, u.range)
    /\ UiUnchanged

NextUi ==
    \/ ManagerClickSync
    \/ ManagerClickBatch
    \/ ManagerPost
    \/ ManagerResponse
    \/ ManagerStatusDone
    \/ RangeClick
    \/ RangePost
    \/ RangeResponse

SpecUi == InitUi /\ [][NextUi]_vars

\* ------------------------------------------- the data folder, unit by unit
\* The repository holds drive-config twice: with folders for the v1 and the
\* legacy API (getFolderPath above), and with folders for the v1 API only.
DriveVersions == {"part_005", "lib/drive-config.ts"}

MaxDriveSyncs == 2

\* getFolderPath of src/lib/drive-config.ts: folderMapping has the four
\* '/v1/...' prefixes, mapped to the category; every other endpoint goes to
\* 'other'.
getFolderPathV1Only(endpoint) ==
    IF endpoint.gen = "v1"
       /\ endpoint.cat \in {"ekatalog-archive", "ekatalog", "rup", "tender"}
    THEN <<endpoint.cat>>
    ELSE <<"other">>

\* getFilePath of the version at hand: path.join(folder, fileName).
getFilePathIn(version, endpoint, year) ==
    IF version = "part_005" THEN getFilePath(endpoint, year)
    ELSE <<getFolderPathV1Only(endpoint), getFileName(endpoint, year)>>

\* The (endpoint, year) pairs of the endpoint catalog.
CatalogUnits ==
    {[endpoint |-> ENDPOINTS[i].value, year |-> year] :
        i \in 1..Len(ENDPOINTS), year \in Years}

InitDrive ==
    /\ SyncIdle
    /\ files = [f \in Paths |-> NoFile]
    /\ syncDoc = defaultState
    /\ resync = NoResync
    /\ stateRun = IdleState
    /\ raced = {}
    /\ now = 1
    /\ scheduleReply = NoReply
    /\ statusQuery = IdleQuery
    /\ retryRun = IdleRetry
    /\ dedupRun = IdleDedup
    /\ gate = IdleGate
    /\ ui = IdleUi
    /\ client = IdleClient
    /\ \E version \in DriveVersions : drive = [IdleDrive EXCEPT !.version = version]

\* A sync of one unit of the catalog stores its table at getFilePath of the
\* unit: appendToExcel loads what is at the path, adds the rows of the unit
\* and writes the workbook back.
DriveSync ==
    /\ drive.syncs < MaxDriveSyncs
    /\ \E unit \in CatalogUnits :
          drive' = [drive EXCEPT
                       !.tables = @ \cup {[path |-> getFilePathIn(drive.version,
                                                                  unit.endpoint, unit.year),
                                           unit |-> unit]},
                       !.syncs = @ + 1]
    /\ UNCHANGED <<route, remote, params, inv, invCount, completed, resync, raced,
                   files, syncDoc, now, scheduleReply, statusQuery, retryRun,
                   dedupRun, stateRun, gate, ui, client>>

NextDrive == DriveSync

SpecDrive == InitDrive /\ [][NextDrive]_vars

\* ------------------------------- the loop of syncEndpoint and the handler
\* syncEndpoint of either component against POST /api/sync: one request at a
\* time, the next one after the response of the one before.
MaxFailures == 2

MaxClientRounds == 2

\* The unit the component syncs.
ClientUnit == CHOOSE u \in SerialUnits : TRUE

\* The variables neither the loop nor the handler it calls writes.
clientRest ==
    <<route, remote, params, invCount, raced, resync, stateRun, now, scheduleReply,
      statusQuery, retryRun, dedupRun, gate, ui, drive>>

\* The remote answers every request from some request on (remoteUp, after at
\* most MaxFailures failed attempts and failed writes), or fails every one.
InitClient ==
    /\ route \in Routes
    /\ \E r \in Remotes : remote = [u \in Units |-> r]
    /\ params \in [batchSize : 1..MaxBatchSize, maxPages : 1..MaxPagesArg]
    /\ files = [f \in Paths |-> NoFile]
    /\ syncDoc = defaultState
    /\ inv = [p \in Procs |-> IdleInv]
    /\ invCount = 0
    /\ completed = {}
    /\ resync = NoResync
    /\ stateRun = IdleState
    /\ raced = {}
    /\ now = 1
    /\ scheduleReply = NoReply
    /\ statusQuery = IdleQuery
    /\ retryRun = IdleRetry
    /\ dedupRun = IdleDedup
    /\ gate = IdleGate
    /\ ui = IdleUi
    /\ drive = IdleDrive
    /\ \E up \in BOOLEAN : client = [IdleClient EXCEPT !.remoteUp = up]

\* A click on the sync button: syncEndpoint up to `while (!isComplete)`.
ClientClick ==
    /\ client.pc = "idle"
    /\ client' = [client EXCEPT !.pc = "request", !.isComplete = FALSE]
    /\ UNCHANGED <<clientRest, inv, files, syncDoc, completed>>

\* `while (!isComplete)` and fetch('/api/sync', { method: 'POST', ... }): the
\* handler starts on the request.  rounds counts the requests up to
\* MaxClientRounds and stays there, so that a loop without end has finitely
\* many states.
ClientPost ==
    /\ client.pc = "request" /\ ~client.isComplete
    /\ inv[1].pc = "idle"
    /\ Put(1, [IdleInv EXCEPT !.pc = "getSyncState", !.unit = ClientUnit])
    /\ client' = [client EXCEPT !.pc = "await",
                                !.rounds = IF @ < MaxClientRounds THEN @ + 1 ELSE @]
    /\ UNCHANGED <<clientRest, files, syncDoc, completed>>

\* One attempt of fetchWithRetry of the handler, answered by this remote.
ClientFetch ==
    /\ client.pc = "await" /\ inv[1].pc = "fetch"
    /\ \E status \in AttemptOutcomes :
          /\ IF client.remoteUp
             THEN IsOk(status) \/ client.failures < MaxFailures
             ELSE ~IsOk(status)
          /\ Put(1, FetchStep(inv[1], status))
          /\ client' = [client EXCEPT
                           !.failures = IF ~IsOk(status) /\ @ < MaxFailures
                                        THEN @ + 1 ELSE @]
    /\ UNCHANGED <<clientRest, files, syncDoc, completed>>

\* writeFileSync of appendToExcel throws, as long as failures are left.
ClientWriteFails ==
    /\ client.pc = "await" /\ inv[1].pc = "appendWrite"
    /\ client.failures < MaxFailures
    /\ Put(1, AfterAppend(inv[1], FailedResult(inv[1].unit.endpoint, inv[1].unit.year)))
    /\ client' = [client EXCEPT !.failures = @ + 1, !.writeFailed = TRUE]
    /\ UNCHANGED <<clientRest, files, syncDoc, completed>>

\* `const result = await res.json()` and the rest of the loop body: a result
\* without success is thrown to the catch, isComplete ends the loop, anything
\* else waits 500 ms and goes round.
ClientResponse ==
    /\ client.pc = "await"
    /\ Responded(1)
    /\ LET result == inv[1].result
       IN  client' = [client EXCEPT
                         !.result = result,
                         !.isComplete = IF result.success THEN result.isComplete ELSE @,
                         !.pc = IF ~result.success THEN "failed"
                                ELSE IF result.isComplete THEN "complete"
                                ELSE "request"]
    /\ UNCHANGED <<clientRest, files, syncDoc>>

\* The steps of the handler between the request and the response, the fetch
\* and the failing write apart.
ClientWork ==
    \/ PostGetSyncState(1)
    \/ PostGetFileInfo(1)
    \/ AppendLoad(1)
    \/ AppendWriteOk(1)
    \/ UpdateStateLoad(1)
    \/ UpdateStateSave(1)
    \/ Verify(1)
    \/ FinalInfo(1)
    \/ FinalState(1)
    \/ CatchInfo(1)

NextClient ==
    \/ ClientClick
    \/ ClientPost
    \/ ClientFetch
    \/ ClientWriteFails
    \/ ClientResponse
    \/ ClientWork

SpecClient == InitClient /\ [][NextClient]_vars

\* The event loop runs every continuation and every timer that is ready.
SpecClientFair == SpecClient /\ WF_vars(NextClient)

\* --------------------------------- syncs with outside changes to the files
\* The file of a unit becomes unreadable: existsSync still finds it, and
\* loadExistingRecords catches the read error and returns no records, no keys
\* and no key fields.
CorruptFile == [exists |-> TRUE, records |-> <<>>, keyFields |-> <<>>]

FileCorrupted(unit) ==
    /\ \A p \in Procs : inv[p].pc = "idle"
    /\ files[PathOf(unit)].exists
    /\ files[PathOf(unit)] # CorruptFile
    /\ files' = [files EXCEPT ![PathOf(unit)] = CorruptFile]
    /\ UNCHANGED <<syncVars, syncDoc, now, scheduleReply, statusQuery, retryRun, dedupRun>>

\* Invocations one at a time, and between them the file of the unit may be
\* deleted or damaged.
NextDisk ==
    \/ PostStart(1, SerialUnits)
    \/ Step(1)
    \/ \E u \in SerialUnits : FileDeleted(u)
    \/ \E u \in SerialUnits : FileCorrupted(u)

SpecDisk == Init /\ [][NextDisk]_vars

\* ------------------------------------------------- appendToExcel, directly
\* The datasets appendToExcel is called for: one whose key fields are a plain
\* field and a chain, and one whose only key field is a chain.
DedupEndpoints ==
    { [gen |-> "v1", cat |-> "ekatalog-archive", name |-> "paket-e-purchasing"],
      [gen |-> "v1", cat |-> "rup", name |-> "paket-anggaran-penyedia"] }

\* The records of a batch: a row of paket-e-purchasing has kd_paket and
\* kode_rup, a row of paket-anggaran-penyedia has one of kode_rup and kd_rup or
\* neither; both have a field that is no key field.  0 is an empty field.
DedupRecords(endpoint) ==
    {r \in [kd_paket : {0, 1}, kode_rup : {0, 1}, kd_rup : {0, 1}, nama : {1, 2}] :
        IF endpoint.name = "paket-e-purchasing" THEN r.kd_rup = 0
        ELSE r.kd_paket = 0 /\ (r.kode_rup = 0 \/ r.kd_rup = 0)}

DedupBatches(endpoint) == SeqsUpTo(DedupRecords(endpoint), MaxBatch) \ {<<>>}

InitDedup ==
    /\ SyncIdle
    /\ resync = NoResync
    /\ stateRun = IdleState
    /\ FrontIdle
    /\ raced = {}
    /\ files = [f \in Paths |-> NoFile]
    /\ syncDoc = defaultState
    /\ now = 1
    /\ scheduleReply = NoReply
    /\ statusQuery = IdleQuery
    /\ retryRun = IdleRetry
    /\ \E e \in DedupEndpoints : dedupRun = [IdleDedup EXCEPT !.endpoint = e]

\* appendToExcel(endpoint, year, newData) on the workbook of the dataset: the
\* first call on no file, the second on the file the first one wrote.
DedupCall ==
    /\ dedupRun.pc \in {"idle", "first"}
    /\ \E newData \in DedupBatches(dedupRun.endpoint) :
          LET m == MergeResult(dedupRun.endpoint, "2024",
                               loadExistingRecords(dedupRun.file), newData)
          IN  dedupRun' = [dedupRun EXCEPT
                 !.pc = IF dedupRun.pc = "idle" THEN "first" ELSE "second",
                 !.preFile = dedupRun.file,
                 !.file = [exists |-> TRUE, records |-> m.allRecords,
                           keyFields |-> m.keyFields],
                 !.newData = newData,
                 !.result = m]
    /\ UNCHANGED <<syncVars, files, syncDoc, now, scheduleReply, statusQuery, retryRun>>

\* appendToExcel fails before the file is written.
DedupCallFails ==
    /\ dedupRun.pc \in {"idle", "first"}
    /\ \E newData \in DedupBatches(dedupRun.endpoint) :
          dedupRun' = [dedupRun EXCEPT
             !.pc = IF dedupRun.pc = "idle" THEN "first" ELSE "second",
             !.preFile = dedupRun.file,
             !.newData = newData,
             !.result = FailedResult(dedupRun.endpoint, "2024")]
    /\ UNCHANGED <<syncVars, files, syncDoc, now, scheduleReply, statusQuery, retryRun>>

NextDedup == DedupCall \/ DedupCallFails

SpecDedup == InitDedup /\ [][NextDedup]_vars

\* ==================================================================== claims
\* The Record Key of a stored record under the key fields of its unit: the
\* joined key fields or, when they are all empty, the content hash.
RecordKey(record, unit) == IncomingKey(record, getUniqueKeyFields(unit.endpoint))

FileOf(unit) == files[PathOf(unit)]

EntryOf(unit) == syncDoc.syncState[unit]

Returned(p) == inv[p].pc = "done"

\* C1: in the stored table of every unit no two records have the same Record
\* Key (joined key fields, or the content hash when they are all empty).
C1_NoDuplicateKeys ==
    \A unit \in Units :
        \A i, j \in 1..Len(FileOf(unit).records) :
            i # j => RecordKey(FileOf(unit).records[i], unit)
                        # RecordKey(FileOf(unit).records[j], unit)

\* C2: once a unit was reported complete, every further sync of it against
\* the unchanged remote returns newRecords = 0 and leaves the table as it was.
C2_IdempotentResync ==
    \A p \in Procs :
        (Returned(p) /\ inv[p].wasComplete /\ inv[p].result.success)
            => /\ inv[p].result.newRecords = 0
               /\ FileOf(inv[p].unit) = inv[p].preFile

\* The table one uninterrupted run leaves: the whole dataset merged into the
\* empty table.
UninterruptedTable(unit) ==
    MergeResult(unit.endpoint, unit.year, loadExistingRecords(NoFile),
                remote[unit].data).allRecords

\* C3: whenever an invocation reports isComplete, whatever interruptions came
\* before, the stored table holds the same set of records as the table of one
\* uninterrupted run over the remote data.
C3_Resumability ==
    \A p \in Procs :
        (Returned(p) /\ inv[p].result.success /\ inv[p].result.isComplete)
            => Range(FileOf(inv[p].unit).records) = Range(UninterruptedTable(inv[p].unit))

\* C3 witness: a complete report after an earlier invocation of the unit was
\* interrupted with pages committed.
C3_Witness ==
    \E p \in Procs :
        /\ Returned(p) /\ inv[p].result.success /\ inv[p].result.isComplete
        /\ inv[p].preEntry.present /\ inv[p].preEntry.lastCursor # 0
        /\ inv[p].currentState.lastCursor # 0
        /\ Len(inv[p].fetched) > 0
        /\ Len(inv[p].preFile.records) > 0

Persisted(records, unit) ==
    \A i \in 1..Len(records) :
        \E j \in 1..Len(FileOf(unit).records) :
            RecordKey(FileOf(unit).records[j], unit) = RecordKey(records[i], unit)

\* C5: when fetchWithRetry throws, the loop fetches no further page, the
\* pages fetched earlier in the invocation are in the table, the stored
\* cursor is the cursor of the page that failed, and the next invocation
\* starts with that cursor.
C5_PartialCommitOnFailure ==
    \A p \in Procs :
        inv[p].stop = "fetchError"
            => /\ inv[p].pc # "fetch"
               /\ Returned(p)
                     => /\ Persisted(inv[p].fetched, inv[p].unit)
                        /\ Len(inv[p].fetched) > 0
                              => /\ EntryOf(inv[p].unit).present
                                 /\ EntryOf(inv[p].unit).lastCursor = inv[p].failedCursor
                        /\ ResumeCursor(getFileInfo(FileOf(inv[p].unit)),
                                        EntryOf(inv[p].unit)) = inv[p].failedCursor

\* C5 witness: the fetch of a later page failed after pages were fetched in
\* the same invocation that held records the table did not have.
C5_Witness ==
    \E p \in Procs :
        /\ Returned(p) /\ inv[p].stop = "fetchError"
        /\ Len(inv[p].fetched) > 0
        /\ inv[p].failedCursor # 0
        /\ inv[p].result.newRecords > 0

\* C6: an invocation whose paging loop was stopped by a fetch failure returns
\* isComplete = false and a populated error field.
C6_FailureSurfaced ==
    \A p \in Procs :
        (Returned(p) /\ inv[p].stop \in {"fetchError", "httpError"})
            => /\ inv[p].result.isComplete = FALSE
               /\ inv[p].result.hasError

\* C7: whenever an invocation returns isComplete = true the entry of the unit
\* has a null lastCursor, and a non-null lastCursor is stored only while the
\* remote has records behind that cursor.
C7_CompletionMarker ==
    /\ \A p \in Procs :
          (Returned(p) /\ inv[p].result.success /\ inv[p].result.isComplete)
              => EntryOf(inv[p].unit).lastCursor = 0
    /\ \A unit \in Units :
          EntryOf(unit).lastCursor # 0
              => EntryOf(unit).lastCursor < Len(remote[unit].data)

\* C8: an invocation that received an empty page reports isComplete = true,
\* also when pages were fetched before it in the same invocation; on a first
\* sync of pages of new records followed by an empty page it reports all the
\* fetched records as new, nothing skipped, and is complete.
C8_EmptyPageCompletes ==
    \A p \in Procs :
        (Returned(p) /\ inv[p].stop = "emptyPage")
            => /\ inv[p].result.isComplete
               /\ (/\ ~inv[p].preFile.exists
                   /\ inv[p].result.duplicatesSkipped = 0)
                     => /\ inv[p].result.newRecords = Len(inv[p].fetched)
                        /\ inv[p].result.totalRecords = Len(inv[p].fetched)

\* C9: two invocations on the same unit are never both in flight past their
\* first read of the state or the table: the second one is rejected before any
\* I/O.
C9_SingleFlight ==
    \A p, q \in Procs :
        (/\ p # q
         /\ inv[p].pc # "idle" /\ inv[q].pc # "idle"
         /\ inv[p].unit = inv[q].unit)
            => ~(inv[p].ioDone /\ inv[q].ioDone)

\* The invocation has been through updateSyncState with its newState.
Saved(p) ==
    /\ inv[p].newState.present
    /\ inv[p].pc \notin {"idle", "stateLoad", "stateSave"}

\* C10: when invocations on different units overlap, no update of the sync
\* state is lost: once both have been through updateSyncState, the entry of
\* each unit is the one its invocation wrote.
C10_NoLostUpdate ==
    \A p, q \in Procs :
        (/\ inv[p].unit # inv[q].unit
         /\ Saved(p) /\ Saved(q))
            => /\ EntryOf(inv[p].unit) = inv[p].newState
               /\ EntryOf(inv[q].unit) = inv[q].newState

\* The statuses fetchWithRetry hands back at once, and those it retries.
TerminalStatuses == {200, 204, 400, 401, 404}

RetriableOutcomes == {0, 429, 500, 502, 503, 504}

\* C14: an attempt answered 2xx, 400, 401 or 404 is the last one and its
\* response is returned (after exactly one attempt when it is the first); an
\* attempt answered 429, 500, 502, 503 or 504, or one that throws, is followed
\* by a retry as long as retries are left.
C14_RetryClassification ==
    \A i \in 1..Len(retryRun.outcomes) :
        /\ retryRun.outcomes[i] \in TerminalStatuses
              => /\ i = Len(retryRun.outcomes)
                 /\ retryRun.pc = "returned"
                 /\ retryRun.response = retryRun.outcomes[i]
        /\ (retryRun.outcomes[i] \in RetriableOutcomes /\ i <= maxRetries)
              => \/ i < Len(retryRun.outcomes)
                 \/ retryRun.pc \in {"delay", "attempt"}

\* C14 witness: a 429 was retried and the 401 that followed was returned at
\* once.
C14_Witness ==
    /\ retryRun.pc = "returned"
    /\ retryRun.outcomes = <<429, 401>>

\* C15: fetchWithRetry makes at most 4 attempts, and when every attempt failed
\* retriably it throws the error of the last attempt and returns no response.
C15_RetryBound ==
    /\ Len(retryRun.outcomes) <= 4
    /\ (/\ retryRun.pc \in {"returned", "thrown"}
        /\ \A i \in 1..Len(retryRun.outcomes) : retryRun.outcomes[i] \in RetriableOutcomes)
          => /\ retryRun.pc = "thrown"
             /\ Len(retryRun.outcomes) = 4
             /\ retryRun.error = retryRun.outcomes[4]
             /\ retryRun.response = 0

\* C15 witness: four attempts failed retriably, the last with a 503 after
\* three transport errors, and the call threw.
C15_Witness ==
    /\ retryRun.pc = "thrown"
    /\ retryRun.outcomes = <<0, 0, 0, 503>>

\* C13: every invocation that passed validation returns a result that carries
\* newRecords, duplicatesSkipped and totalRecords, also after a failed fetch
\* and after a failed table write.
C13_StructuredResult ==
    \A p \in Procs : Returned(p) => inv[p].result.hasProgress

\* Hours since the last run, when there was one.
Elapsed == now - syncDoc.schedule.lastRun

\* C16 as stated: the answer is true whenever lastRun is null, true for daily
\* after 24 hours and for weekly after 168 hours, false otherwise, and depends
\* on lastRun, cadence and the time only.
C16_DueByLastRunAndCadence ==
    scheduleReply.present
        => scheduleReply.isDue =
              (\/ syncDoc.schedule.lastRun = 0
               \/ syncDoc.schedule.type = "daily" /\ Elapsed >= 24
               \/ syncDoc.schedule.type = "weekly" /\ Elapsed >= 168)

\* C16 amended: a disabled schedule is never due; an enabled schedule is due
\* when it never ran, and otherwise exactly when 24 hours (daily) or 168 hours
\* (weekly) have passed since lastRun: weekly is due 8 days after lastRun and
\* not due 2 days after it.
C16_DueWhenEnabled ==
    scheduleReply.present
        => /\ ~syncDoc.schedule.enabled => ~scheduleReply.isDue
           /\ (syncDoc.schedule.enabled /\ syncDoc.schedule.lastRun = 0)
                 => scheduleReply.isDue
           /\ (/\ syncDoc.schedule.enabled /\ syncDoc.schedule.lastRun # 0
               /\ syncDoc.schedule.type = "daily")
                 => (scheduleReply.isDue <=> Elapsed >= 24)
           /\ (/\ syncDoc.schedule.enabled /\ syncDoc.schedule.lastRun # 0
               /\ syncDoc.schedule.type = "weekly")
                 => /\ scheduleReply.isDue <=> Elapsed >= 168
                    /\ Elapsed = 8 * 24 => scheduleReply.isDue
                    /\ Elapsed = 2 * 24 => ~scheduleReply.isDue

\* C16 witness: an enabled weekly schedule asked exactly 168 hours after its
\* last run answers that it is due.
C16_Witness ==
    /\ scheduleReply.present /\ scheduleReply.isDue
    /\ syncDoc.schedule.enabled /\ syncDoc.schedule.type = "weekly"
    /\ syncDoc.schedule.lastRun # 0 /\ Elapsed = 168

\* The alternatives of one key field as the specification reads it: a chain
\* "a||b" names the fields a and b, taken in that order.
Alternatives(field) ==
    IF field = "kode_rup||kd_rup" THEN <<"kode_rup", "kd_rup">> ELSE <<field>>

\* The first non-empty alternative of a key field in a record, 0 if none.
FirstNonEmpty(record, field) ==
    LET alts == Alternatives(field)
        hits == {i \in 1..Len(alts) : FieldValue(record, alts[i]) # 0}
    IN  IF hits = {} THEN 0
        ELSE FieldValue(record, alts[CHOOSE i \in hits : \A j \in hits : i <= j])

\* The key components of a record with every chain resolved.
ChainKey(record, keyFields) ==
    [i \in 1..Len(keyFields) |-> FirstNonEmpty(record, keyFields[i])]

DedupDone == dedupRun.pc \in {"first", "second"} /\ dedupRun.result.success

DedupTable == dedupRun.file.records

DedupAppended == SubSeq(DedupTable, Len(dedupRun.preFile.records) + 1, Len(DedupTable))

\* C17: for a key field that is a chain of alternatives the first non-empty
\* alternative is the record's value, so two records of one dataset that agree
\* on every such value are never both in the dataset's table.
C17_ChainResolved ==
    DedupDone =>
        LET kf == getUniqueKeyFields(dedupRun.endpoint)
        IN  \A i, j \in 1..Len(DedupTable) :
               (/\ i < j
                /\ ~IsEmptyKey(ChainKey(DedupTable[i], kf))
                /\ ChainKey(DedupTable[i], kf) = ChainKey(DedupTable[j], kf))
               => FALSE

\* The Record Key of a record: its key components, or the hash of its content
\* when all of them are empty.
DedupKey(record) ==
    LET k == generateRecordKey(record, getUniqueKeyFields(dedupRun.endpoint))
    IN  IF IsEmptyKey(k) THEN <<-1>> \o RowJson(record) ELSE k

\* The incoming records a first-seen-wins merge keeps, in incoming order.
FirstSeen ==
    LET nd == dedupRun.newData
        keep == {i \in 1..Len(nd) :
                   /\ \A s \in 1..Len(dedupRun.preFile.records) :
                         DedupKey(dedupRun.preFile.records[s]) # DedupKey(nd[i])
                   /\ \A j \in 1..(i - 1) : DedupKey(nd[j]) # DedupKey(nd[i])}
        Pick[i \in 0..Len(nd)] ==
            IF i = 0 THEN <<>>
            ELSE IF i \in keep THEN Append(Pick[i - 1], nd[i]) ELSE Pick[i - 1]
    IN  Pick[Len(nd)]

\* C18: a merge is first-seen-wins: an incoming record whose Record Key is that
\* of a stored record or of an earlier record of the batch is skipped and
\* counted as a duplicate, every other one is appended in incoming order, and
\* the stored records stay as they were.
C18_FirstSeenWins ==
    DedupDone =>
        /\ DedupTable = dedupRun.preFile.records \o FirstSeen
        /\ dedupRun.result.newRecords = Len(FirstSeen)
        /\ dedupRun.result.duplicatesSkipped = Len(dedupRun.newData) - Len(FirstSeen)

\* A record all of whose key fields are empty, with chains resolved.
Keyless(record) == IsEmptyKey(ChainKey(record, getUniqueKeyFields(dedupRun.endpoint)))

\* C19: a record whose key fields are all empty is skipped only for a record of
\* identical content: after a merge every such incoming record is in the table,
\* and the merge skipped no more keyless records than repeat the content of an
\* earlier keyless record of the batch or of a stored record.
C19_KeylessOnlyIdentical ==
    DedupDone =>
        LET nd == dedupRun.newData
            keyless == {i \in 1..Len(nd) : Keyless(nd[i])}
            repeats == {i \in keyless :
                          \/ \E j \in 1..(i - 1) : nd[j] = nd[i]
                          \/ nd[i] \in Range(dedupRun.preFile.records)}
            appended == {a \in 1..Len(DedupAppended) : Keyless(DedupAppended[a])}
        IN  /\ \A i \in keyless : nd[i] \in Range(DedupTable)
            /\ Cardinality(keyless) - Cardinality(appended) <= Cardinality(repeats)

\* Two keyless records of different content arrive in one batch, after a first
\* batch stored another keyless record, and all three are in the table.
C19_Witness ==
    /\ DedupDone
    /\ dedupRun.pc = "second"
    /\ Len(dedupRun.newData) = 2
    /\ Keyless(dedupRun.newData[1])
    /\ Keyless(dedupRun.newData[2])
    /\ dedupRun.newData[1] # dedupRun.newData[2]
    /\ Len(dedupRun.preFile.records) = 1
    /\ Keyless(dedupRun.preFile.records[1])
    /\ dedupRun.result.newRecords = 2
    /\ Len(DedupTable) = 3

\* The record count reloaded from the file of a unit.
FileCount(unit) == getFileInfo(FileOf(unit)).recordCount

\* The file's record count is the totalRecords recorded in Sync State.
CountsAgree(unit) ==
    EntryOf(unit).present /\ EntryOf(unit).totalRecords = FileCount(unit)

\* C20 (state part): of a returned result, verificationStatus is 'verified'
\* exactly when the invocation is complete and the file's record count equals
\* the recorded totalRecords, 'mismatch' exactly when it is complete and they
\* differ, and 'unchecked' whenever isComplete is false.
C20_StatusMatchesCounts ==
    \A p \in Procs :
        (Returned(p) /\ inv[p].result.success) =>
            LET res == inv[p].result
                unit == inv[p].unit
            IN  /\ res.verificationStatus = "verified"
                      <=> (res.isComplete /\ CountsAgree(unit))
                /\ res.verificationStatus = "mismatch"
                      <=> (res.isComplete /\ ~CountsAgree(unit))
                /\ ~res.isComplete => res.verificationStatus = "unchecked"

\* A step in which an invocation finds or holds a mismatch.
MismatchStep ==
    \E p \in Procs : \/ inv[p].finalVerification = "mismatch"
                     \/ inv'[p].finalVerification = "mismatch"

\* C20: post-sync verification: the returned verificationStatus tells whether
\* the complete invocation's file count equals the recorded totalRecords (the
\* state part above), and a step of an invocation that found a mismatch
\* changes neither the table nor the state.
C20_PostSyncVerification ==
    /\ []C20_StatusMatchesCounts
    /\ [][MismatchStep => (files' = files /\ syncDoc' = syncDoc)]_vars

\* A complete invocation wrote records and returned 'verified'.
C20_Witness ==
    \E p \in Procs :
        /\ Returned(p)
        /\ inv[p].result.isComplete
        /\ inv[p].result.verificationStatus = "verified"
        /\ inv[p].result.newRecords >= 1
        /\ CountsAgree(inv[p].unit)

StatusDone == statusQuery.pc = "done"

\* The entries the response of a status query carries.
InResponse(unit) == statusQuery.reported[unit].present

\* C11: after a status query with verify=true every entry that claimed
\* totalRecords > 0 while its file did not exist is deleted from the persisted
\* document and absent from the response, however many there were.
C11_SelfHealing ==
    (StatusDone /\ statusQuery.verifyFiles) =>
        \A u \in statusQuery.stale :
            /\ ~syncDoc.syncState[u].present
            /\ ~InResponse(u)

\* C12: a status query with verify=false reads no file of the tabular store,
\* reports every persisted entry as stored, and leaves the persisted document
\* as it was.
C12_NoVerifyReadsNothing ==
    (StatusDone /\ ~statusQuery.verifyFiles) =>
        /\ statusQuery.storeReads = 0
        /\ \A u \in statusQuery.years :
              statusQuery.preDoc.syncState[u].present
                 => statusQuery.reported[u] = statusQuery.preDoc.syncState[u]
        /\ syncDoc = statusQuery.preDoc

\* The invocation wrote the file of its unit and recorded the write.
Committed(p) == inv[p].newState.present

\* C21: with invocations one at a time, after an invocation that committed
\* data the Sync State entry of its unit counts exactly the records in the
\* unit's file, and so does the totalRecords of the returned result.
C21_StateFileConsistency ==
    \A p \in Procs :
        (Returned(p) /\ Committed(p)) =>
            /\ EntryOf(inv[p].unit).present
            /\ EntryOf(inv[p].unit).totalRecords = FileCount(inv[p].unit)
            /\ inv[p].result.success
            /\ inv[p].result.totalRecords = FileCount(inv[p].unit)

\* A second invocation added records to a file that already held some.
C21_Witness ==
    \E p \in Procs :
        /\ Returned(p)
        /\ Committed(p)
        /\ inv[p].preFile.exists
        /\ Len(inv[p].preFile.records) >= 1
        /\ inv[p].result.newRecords >= 1
        /\ FileCount(inv[p].unit) >= 2

\* The re-sync of a unit whose table held exactly the records of the remote
\* collection has reported isComplete.
ResyncDone == resync.complete /\ resync.table = resync.base

\* C22: when a fully synced unit holding N records is synced again after the
\* remote gained M records with new keys, the invocations up to the one that
\* reports isComplete report M new records and N skipped duplicates in sum,
\* and totalRecords = N + M.
C22_ResyncAccounting ==
    ResyncDone =>
        /\ resync.newRecords = Len(resync.added)
        /\ resync.duplicatesSkipped = Len(resync.base)
        /\ resync.totalRecords = Len(resync.base) + Len(resync.added)

\* No invocation is under way.
Quiescent == \A p \in Procs : inv[p].pc \in {"idle", "done"}

\* The file of the unit holds no record with the Record Key of a record that
\* some invocation wrote to it.
LostRecords(unit) ==
    \E p \in Procs :
        /\ Returned(p)
        /\ inv[p].unit = unit
        /\ Committed(p)
        /\ inv[p].stop # "writeError"
        /\ \E i \in 1..Len(inv[p].newData) :
              \A j \in 1..Len(FileOf(unit).records) :
                  RecordKey(FileOf(unit).records[j], unit) # RecordKey(inv[p].newData[i], unit)

\* The Sync State entry of the unit does not count the records of its file.
CountMismatch(unit) ==
    EntryOf(unit).present /\ EntryOf(unit).totalRecords # FileCount(unit)

\* C23: two invocations on one unit that interleave can end with records one
\* of them committed missing from the table, or with a Sync State entry whose
\* totalRecords does not match the table; invocations that do not overlap on
\* a unit never end so.
C23_RaceNeedsOverlap ==
    \A unit \in Units :
        (Quiescent /\ (LostRecords(unit) \/ CountMismatch(unit))) => unit \in raced

\* Two overlapping invocations have returned, and the table written last has
\* no record with the Record Key of a record the other invocation wrote.
C23_Witness ==
    \E unit \in raced : Quiescent /\ LostRecords(unit)

\* The invocation has made its resume decision and fetched nothing yet.
AtStart(p) ==
    inv[p].pc = "fetch" /\ inv[p].pagesFetched = 0 /\ inv[p].retryCount = 0
       /\ inv[p].fetched = <<>>

\* C24 (state part): the first request of an invocation carries the stored
\* cursor exactly when the file of the unit exists and the stored lastCursor
\* is not null, and the null cursor in every other case; the decision leaves
\* the Sync State entry as it found it.
C24_StartCursor ==
    \A p \in Procs :
        AtStart(p) =>
            LET entry == inv[p].preEntry
                resumes == FileOf(inv[p].unit).exists /\ entry.present /\ entry.lastCursor # 0
            IN  /\ resumes => inv[p].currentCursor = entry.lastCursor
                /\ ~resumes => inv[p].currentCursor = 0
                /\ EntryOf(inv[p].unit) = entry

C25_CorruptStartsFresh ==
    \A p \in Procs :
        (AtStart(p) /\ FileOf(inv[p].unit) = CorruptFile) => inv[p].currentCursor = 0


\* C26: a page response with a terminal status ends the paging loop in the
\* step that receives it, without a retry; the pages fetched earlier in the
\* invocation are in the table when the invocation returns, and the stored
\* cursor is the cursor of the page that was refused.
RefusedNow(p) == inv[p].stop # "httpError" /\ inv'[p].stop = "httpError"

C26_RefusedStopsLoop ==
    \A p \in Procs :
        inv[p].stop = "httpError"
            => /\ inv[p].pc # "fetch"
               /\ Returned(p)
                     => /\ Persisted(inv[p].fetched, inv[p].unit)
                        /\ Len(inv[p].fetched) > 0
                              => /\ EntryOf(inv[p].unit).present
                                 /\ EntryOf(inv[p].unit).lastCursor = inv[p].failedCursor

C26_TerminalError ==
    /\ []C26_RefusedStopsLoop
    /\ [][\A p \in Procs :
             RefusedNow(p)
                 => /\ inv[p].pc = "fetch"
                    /\ inv'[p].pagesFetched = inv[p].pagesFetched
                    /\ inv'[p].fetched = inv[p].fetched
                    /\ inv'[p].failedCursor = inv[p].currentCursor]_vars

\* C26 witness: a later page of an invocation was refused after the earlier
\* pages brought records the table did not have, and the invocation returned.
C26_Witness ==
    \E p \in Procs :
        /\ Returned(p) /\ inv[p].stop = "httpError"
        /\ Len(inv[p].fetched) > 0
        /\ inv[p].failedCursor # 0
        /\ inv[p].result.newRecords > 0
        /\ EntryOf(inv[p].unit).lastCursor = inv[p].failedCursor


\* The cursor the handler was given with the last page it fetched.
LastPageCursor(p) == IF route = "batched" THEN inv[p].finalCursor ELSE inv[p].currentCursor

\* C27: an invocation fetches at most maxPages non-empty pages; one that stops
\* because the page budget is used up has committed the fetched pages, stored
\* the cursor behind the last of them, and returns isComplete = false with no
\* error and verificationStatus 'unchecked'; the next invocation starts with
\* the stored cursor.
C27_PageBudget ==
    \A p \in Procs :
        /\ inv[p].pagesFetched <= params.maxPages
        /\ (Returned(p) /\ inv[p].stop = "budget")
              => /\ inv[p].pagesFetched = params.maxPages
                 /\ inv[p].result.success
                 /\ inv[p].result.isComplete = FALSE
                 /\ ~inv[p].result.hasError
                 /\ inv[p].result.verificationStatus = "unchecked"
                 /\ Persisted(inv[p].fetched, inv[p].unit)
                 /\ EntryOf(inv[p].unit).present
                 /\ EntryOf(inv[p].unit).lastCursor = LastPageCursor(p)
                 /\ LastPageCursor(p) # 0
                 /\ ResumeCursor(getFileInfo(FileOf(inv[p].unit)),
                                 EntryOf(inv[p].unit)) = LastPageCursor(p)

\* C27 witness: an invocation used up a budget of two pages while the remote
\* had more, and returned.
C27_Witness ==
    \E p \in Procs :
        /\ Returned(p) /\ inv[p].stop = "budget"
        /\ params.maxPages = 2 /\ inv[p].pagesFetched = 2
        /\ inv[p].result.newRecords > 0
        /\ Len(remote[inv[p].unit].data) > Len(inv[p].fetched)


\* The remote of the invocation answers every request with a bare array that
\* holds records, and the invocation got such an answer and could write.
GotArray(p) ==
    /\ Returned(p)
    /\ remote[inv[p].unit].endStyle = "array"
    /\ Len(remote[inv[p].unit].data) > 0
    /\ inv[p].stop \notin {"fetchError", "httpError", "writeError"}

\* C28: an invocation that is answered with a bare array of records takes it
\* as its only page: every record of the array is in the table, no second
\* page is requested, the response has isComplete = true and the stored
\* cursor is null.
C28_BareArray ==
    \A p \in Procs :
        GotArray(p)
            => /\ inv[p].fetched = remote[inv[p].unit].data
               /\ Persisted(remote[inv[p].unit].data, inv[p].unit)
               /\ inv[p].pagesFetched = 1
               /\ inv[p].result.success /\ inv[p].result.isComplete
               /\ EntryOf(inv[p].unit).present
               /\ EntryOf(inv[p].unit).lastCursor = 0

\* The same for the batched handler alone.
C28_BareArrayBatched ==
    \A p \in Procs : (route = "batched" /\ GotArray(p)) =>
        /\ inv[p].fetched = remote[inv[p].unit].data
        /\ Persisted(remote[inv[p].unit].data, inv[p].unit)
        /\ inv[p].pagesFetched = 1
        /\ inv[p].result.success /\ inv[p].result.isComplete
        /\ EntryOf(inv[p].unit).present
        /\ EntryOf(inv[p].unit).lastCursor = 0


\* C29: the wait before retry k of one call of fetchWithRetry is
\* min(1000 * 2^(k-1), 10000) ms, which is 1000, 2000 and 4000 ms for the
\* three retries there are; the waits depend on k alone, and an attempt that
\* ends the call, by a response or by the throw of the last failure, is
\* followed by no wait.
C29_BackoffDelays ==
    LET delays == retryRun.delays
        attempts == Len(retryRun.outcomes)
    IN  /\ Len(delays) <= 3
        /\ \A k \in 1..Len(delays) :
              /\ delays[k] = Min(1000 * Pow2(k - 1), 10000)
              /\ delays[k] = <<1000, 2000, 4000>>[k]
        /\ retryRun.pc \in {"returned", "thrown"} => Len(delays) = attempts - 1
        /\ retryRun.pc = "delay" => Len(delays) = attempts
        /\ retryRun.pc = "attempt" => Len(delays) = attempts

\* C29 witness: a call failed four times and threw, after three waits.
C29_Witness ==
    /\ retryRun.pc = "thrown"
    /\ Len(retryRun.outcomes) = 4
    /\ retryRun.delays = <<1000, 2000, 4000>>


\* What a call of updateSyncState or resetSyncState found and what it left.
StateDone(op) == stateRun.pc = "done" /\ stateRun.op = op
EntryBefore == stateRun.before.syncState[stateRun.unit]
EntryAfter == syncDoc.syncState[stateRun.unit]

\* The call left the entries of the other units and the schedule as they were.
OthersKept ==
    /\ \A u \in Units \ {stateRun.unit} : syncDoc.syncState[u] = stateRun.before.syncState[u]
    /\ syncDoc.schedule = stateRun.before.schedule

\* The value a field has after an update: the given one, else the one the
\* entry had, else the default of a new entry.
Expected(field, default) ==
    IF field \in stateRun.update.given THEN stateRun.update.value[field]
    ELSE IF EntryBefore.present THEN EntryBefore[field]
    ELSE default

\* C30: updateSyncState replaces the fields the update gives and no other,
\* starts from lastCursor null and totalRecords 0 when the unit has no entry,
\* sets lastSyncDate to the time of the call whatever the update gives, and
\* leaves the other entries and the schedule alone; resetSyncState removes the
\* entry of the unit, leaves the rest alone, and does not write when the unit
\* has no entry.
C30_UpdateAndReset ==
    /\ StateDone("update")
          => /\ EntryAfter.present
             /\ EntryAfter.lastCursor = Expected("lastCursor", 0)
             /\ EntryAfter.totalRecords = Expected("totalRecords", 0)
             /\ EntryAfter.filePath =
                   Expected("filePath", getFilePath(stateRun.unit.endpoint, stateRun.unit.year))
             /\ EntryAfter.lastSyncDate = stateRun.at
             /\ stateRun.at >= 2
             /\ OthersKept
             /\ stateRun.writes = 1
    /\ StateDone("reset")
          => /\ ~EntryAfter.present
             /\ OthersKept
             /\ stateRun.writes = (IF EntryBefore.present THEN 1 ELSE 0)
             /\ ~EntryBefore.present => syncDoc = stateRun.before

\* C30 witness: an update gave the entry of a unit its totalRecords while the
\* other unit had an entry, and a reset then removed the entry of the first.
C30_Witness ==
    /\ StateDone("reset")
    /\ stateRun.calls = <<"update", "reset">>
    /\ EntryBefore.present /\ EntryBefore.totalRecords = 2 /\ EntryBefore.lastCursor = 0
    /\ stateRun.writes = 1
    /\ \E u \in Units \ {stateRun.unit} : syncDoc.syncState[u].present


\* The requests the handler must not serve: a field is missing, the prefix is
\* neither /v1/ nor /legacy/, or the path names a detail endpoint.
Unsyncable(body) ==
    \/ body.endpoint = <<>>
    \/ body.year = ""
    \/ body.endpoint.gen \notin {"v1", "legacy"}
    \/ \E de \in detailEndpoints : Includes(body.endpoint, de)

\* The request is answered with 400 and has fetched nothing, made no folder
\* and written no table and no entry.
Refused ==
    /\ gate.status = 400
    /\ gate.fetches = 0
    /\ gate.folders = gate.before
    /\ files = [f \in Paths |-> NoFile]
    /\ syncDoc = defaultState

\* C31: a request that misses endpoint or year, whose endpoint starts with
\* neither /v1/ nor /legacy/, or whose endpoint names a detail endpoint, is
\* answered with status 400 before any fetch, and no folder, table or entry is
\* made or changed.
C31_UnsyncableRefused ==
    (gate.pc = "done" /\ Unsyncable(gate.body)) => Refused

\* The same for the batched handler of a deployment that has its JWT_TOKEN.
C31_BatchedRefuses ==
    (gate.pc = "done" /\ Unsyncable(gate.body) /\ route = "batched" /\ gate.jwt) => Refused

\* A reachable state: the per-page handler has made the folder of a detail
\* endpoint of the /v1/ prefix and fetched from it.
PerPageServesDetail ==
    /\ gate.pc = "done" /\ route = "perPage" /\ gate.jwt
    /\ gate.body.endpoint # <<>>
    /\ gate.body.endpoint.name = "komoditas-detail"
    /\ gate.status = 200 /\ gate.fetches = 1 /\ gate.folders # gate.before


\* A call of appendToExcel has returned success.
Appended == dedupRun.pc \in {"first", "second"} /\ dedupRun.result.success

SyncableValues == [i \in 1..Len(getSyncableEndpoints) |-> getSyncableEndpoints[i].value]

\* C33: when a run of batchSync clears the batchSyncing flag, syncEndpoint has
\* been invoked in that run for every endpoint of getSyncableEndpoints, in
\* catalog order, one after the other.
C33_BatchCoversCatalog ==
    ui.batchDone => ui.clearedAfter = SyncableValues

\* What the run covers instead: it clears the flag with no endpoint synced.
C33_BatchSyncsNothing ==
    /\ ui.batchDone => ui.clearedAfter = <<>>
    /\ ui.manager.kind # "batch"


\* C39  UI mutual exclusion.  Within one SyncManager at most one POST
\* /api/sync is in flight at any time: a sync of the component is running only
\* while its buttons are disabled, and a request of the component is in flight
\* only while its one running syncEndpoint awaits that response.  The
\* RangeSyncManager is not covered by this: it has its own flag, and its
\* request for an endpoint can be in flight together with a request of the
\* SyncManager for the same endpoint (C39_Witness); the year of the
\* SyncManager can be any year of the range.
RequestsBy(component) ==
    {i \in 1..Len(ui.inFlight) : ui.inFlight[i].by = component}

C39_OneRequestInFlight ==
    /\ Cardinality(RequestsBy("manager")) <= 1
    /\ ui.manager # IdleTask => ButtonDisabled(ui)
    /\ RequestsBy("manager") # {} =>
          /\ ui.manager.pc = "await"
          /\ \A i \in RequestsBy("manager") :
                ui.inFlight[i].endpoint = ui.manager.endpoint

C39_Witness ==
    \E i \in RequestsBy("manager"), j \in RequestsBy("range") :
       ui.inFlight[i].endpoint = ui.inFlight[j].endpoint


\* C34  Distinct sync units never share storage: the tables of two different
\* (endpoint, year) pairs of the catalog are never at the same path.
C34_NoSharedStorage ==
    \A s \in drive.tables, t \in drive.tables : s.unit # t.unit => s.path # t.path

\* With the folders of both API generations in folderMapping the paths of
\* the catalog are distinct; with the v1 folders only, two legacy tables of
\* one name are both at other/<name>_<year>.xlsx.
C34_DistinctWithLegacyFolders ==
    drive.version = "part_005" => C34_NoSharedStorage

C34_LegacyTablesShare ==
    /\ drive.version = "lib/drive-config.ts"
    /\ \E s \in drive.tables, t \in drive.tables :
          /\ s.unit # t.unit
          /\ s.path = t.path
          /\ s.unit.endpoint.gen = "legacy" /\ t.unit.endpoint.gen = "legacy"


\* Every appendToExcel of the invocation succeeded, and it made at least one.
CommittedAll(p) == Committed(p) /\ inv[p].stop # "writeError"

\* C36  Per-invocation accounting.  An invocation whose commits all
\* succeeded returns newRecords + duplicatesSkipped = the number of records
\* it fetched and totalRecords = the records stored before it + newRecords,
\* and the records stored before it are the first records of the table, in
\* their order.  (The per-page handler commits page by page; a page whose
\* write failed was fetched and is in none of the counts.)
C36_Accounting ==
    \A p \in Procs :
        (Returned(p) /\ CommittedAll(p)) =>
            LET l == inv[p]
                before == l.preFile.records
                table == FileOf(l.unit).records
            IN  /\ l.result.newRecords + l.result.duplicatesSkipped = Len(l.fetched)
                /\ l.result.totalRecords = Len(before) + l.result.newRecords
                /\ Len(table) >= Len(before)
                /\ SubSeq(table, 1, Len(before)) = before

\* An invocation on a table that held records has added some of the records
\* it fetched and skipped others.
C36_Witness ==
    \E p \in Procs :
        /\ Returned(p)
        /\ CommittedAll(p)
        /\ Len(inv[p].preFile.records) >= 1
        /\ inv[p].result.newRecords >= 1
        /\ inv[p].result.duplicatesSkipped >= 1


\* C37  A disabled schedule is never due: while schedule.enabled is false the
\* answer of isScheduledSyncDue is false, whatever lastRun (null or a time),
\* the cadence and the current time are.
C37_DisabledNeverDue ==
    (scheduleReply.present /\ ~syncDoc.schedule.enabled) => ~scheduleReply.isDue

\* A disabled schedule was asked when, enabled, it would have been due: a
\* week or more after its last run.
C37_Witness ==
    /\ scheduleReply.present
    /\ ~syncDoc.schedule.enabled
    /\ syncDoc.schedule.lastRun # 0 /\ Elapsed >= 168


\* 24 hours for daily, 168 hours for weekly.
CadenceHours(type) == IF type = "daily" THEN 24 ELSE 168

\* C38  Mark-run resets due-ness.  The PUT sets lastRun to the current time
\* and nothing else, and the schedule is not due after it; an enabled
\* schedule that has run is due exactly from 24 hours (daily) or 168 hours
\* (weekly) after lastRun on, so that, with enabled and type left as they
\* are, it stays not due until then and due from then to the next PUT; and
\* no step of POST or PUT changes an entry of syncState or a file.
C38_MarkRunResets ==
    [][LET schedule == syncDoc.schedule
           after == syncDoc'.schedule
       IN  /\ syncDoc'.syncState = syncDoc.syncState
           /\ files' = files
           /\ after.lastRun # schedule.lastRun
                 => /\ after = [schedule EXCEPT !.lastRun = now]
                    /\ ~isScheduledSyncDue(after, now')
           /\ (after.enabled /\ after.lastRun # 0)
                 => (isScheduledSyncDue(after, now')
                        <=> now' - after.lastRun >= CadenceHours(after.type))
           /\ (/\ after = schedule
               /\ schedule.enabled /\ schedule.lastRun # 0
               /\ isScheduledSyncDue(schedule, now))
                 => isScheduledSyncDue(after, now')
           /\ scheduleReply'.present
                 => scheduleReply'.isDue = isScheduledSyncDue(after, now')]_vars

\* An enabled schedule beside a Sync State entry was marked as run a day or
\* more after the start, and asked in the same hour: it is not due.
C38_Witness ==
    /\ syncDoc.schedule.enabled
    /\ syncDoc.schedule.lastRun = now /\ now >= 25
    /\ scheduleReply.present /\ ~scheduleReply.isDue
    /\ \E u \in Units : syncDoc.syncState[u].present


\* The loop of syncEndpoint has ended: isComplete was true, or the result
\* had no success and was thrown.
ClientEnded == client.pc \in {"complete", "failed"}

\* One request at a time, and the loop ends on the results it should end on.
ClientLoopSafe ==
    /\ inv[2].pc = "idle"
    /\ inv[1].pc # "idle" => client.pc = "await"
    /\ client.pc = "complete" => client.result.success /\ client.result.isComplete
    /\ client.pc = "failed"
          => ~client.result.success /\ client.writeFailed /\ route = "batched"
    /\ (client.pc = "request" /\ client.rounds > 0)
          => client.result.success /\ ~client.result.isComplete
    /\ ~client.remoteUp => ~ClientEnded

C35_WitnessDown ==
    /\ ~client.remoteUp
    /\ client.rounds = MaxClientRounds
    /\ client.pc = "await"
============================================================================
